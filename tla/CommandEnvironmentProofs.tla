---------------------- MODULE CommandEnvironmentProofs ----------------------
(***************************************************************************)
(* What check says of a command's environment, what a command doesn't get  *)
(* and what is cut of what it prints, proved for every config, every       *)
(* environment of the process, every content of the client key's file and  *)
(* whatever the propagator gives.                                          *)
(***************************************************************************)
EXTENDS CommandEnvironment, SequenceTheorems, WellFoundedInduction, TLAPS

Dropped(drops) == drops.byName \union drops.byValue

\* A name that was dropped is among what commands start from, and among what a
\* command gets, only where the config sets it.
Apart ==
  /\ stage = "built" =>
       Dropped(dropped) \intersect DOMAIN dropped.environment \subseteq Stated(config)
  /\ DroppedStayDropped

LEMMA EnvironmentApart ==
  ASSUME NEW c, NEW credentials
  PROVE  LET drops == Environment(c, credentials)
         IN  Dropped(drops) \intersect DOMAIN drops.environment \subseteq Stated(c)
<1> DEFINE drops == Environment(c, credentials)
           kept == DOMAIN c.base \ Dropped(drops)
<1>1. drops.environment = Over(Entered(c), Restrict(c.base, kept))
  BY DEF Environment, Dropped
<1>2. DOMAIN Entered(c) \subseteq Stated(c)
  BY DEF Entered, Over, EntryValues, Stated
<1>3. DOMAIN Restrict(c.base, kept) = kept
  BY DEF Restrict
<1> HIDE DEF drops
<1>4. DOMAIN drops.environment \subseteq Stated(c) \union kept
  BY <1>1, <1>2, <1>3 DEF Over
<1> QED
  BY <1>4 DEF drops

LEMMA CommandApart ==
  ASSUME Apart, StartsCommand
  PROVE  Dropped(dropped) \intersect DOMAIN command' \subseteq Stated(config)
<1> DEFINE kept == Kept(config, dropped)
           inherits == DOMAIN dropped.environment \ (Contextual \ kept)
<1>1. PICK given \in SUBSET Fields :
        command' = Over([name \in given \ kept |-> TraceContext],
                        Restrict(dropped.environment, inherits))
  BY DEF StartsCommand
<1>2. DOMAIN Restrict(dropped.environment, inherits) \subseteq DOMAIN dropped.environment
  BY DEF Restrict
<1>3. DOMAIN command' \subseteq (given \ kept) \union DOMAIN dropped.environment
  BY <1>1, <1>2 DEF Over
<1>4. Dropped(dropped) \subseteq kept
  BY DEF Dropped, Kept
<1> QED
  BY <1>3, <1>4 DEF Apart, StartsCommand

LEMMA ApartHolds == Spec => []Apart
<1>1. Init => Apart
  BY DEF Init, Apart, DroppedStayDropped
<1>2. Apart /\ [Next]_vars => Apart'
  <2> SUFFICES ASSUME Apart, [Next]_vars PROVE Apart'
    OBVIOUS
  <2>1. CASE Fills \/ Prepares \/ Finishes
    BY <2>1 DEF Fills, Prepares, Finishes, Goes, Apart, DroppedStayDropped
  <2>2. CASE BuildsTools
    <3>1. stage' = "built" =>
            dropped' = Environment(config, secrets) /\ config' = config
      BY <2>2 DEF BuildsTools
    <3>2. stage' # "started"
      BY <2>2 DEF BuildsTools, Goes
    <3> QED
      BY <3>1, <3>2, EnvironmentApart DEF Apart, DroppedStayDropped
  <2>3. CASE StartsCommand
    <3>1. Dropped(dropped) \intersect DOMAIN command' \subseteq Stated(config)
      BY <2>3, CommandApart
    <3>2. stage' = "started" /\ UNCHANGED <<config, dropped>>
      BY <2>3 DEF StartsCommand
    <3> QED
      BY <3>1, <3>2 DEF Apart, DroppedStayDropped, Dropped
  <2>4. CASE UNCHANGED vars
    BY <2>4 DEF vars, Apart, DroppedStayDropped
  <2> QED
    BY <2>1, <2>2, <2>3, <2>4 DEF Next
<1> QED
  BY <1>1, <1>2, PTL DEF Spec

\* Whatever a config states, a variable that was dropped because it holds or
\* may hold a credential is no command's again, under a context's name either,
\* unless the config sets it (environment.rs, bash.rs inject).
THEOREM DroppedStaysDropped == Spec => []DroppedStayDropped
<1>1. Apart => DroppedStayDropped
  BY DEF Apart
<1> QED
  BY <1>1, ApartHolds, PTL

-----------------------------------------------------------------------------
(* What's settled by each step, and where a command's variables come from.  *)

\* What a command starts with in a context that gives some fields.
Started(c, drops, given) ==
  LET kept == Kept(c, drops)
  IN  Over([name \in given \ kept |-> TraceContext],
           Restrict(drops.environment, DOMAIN drops.environment \ (Contextual \ kept)))

\* What is settled by the time a step is reached.
Derivation ==
  /\ config \in Configs /\ contents \in Contents
  /\ stage \in {"filled", "prepared", "settled", "built", "started"} => ~CantFill(config)
  /\ stage \in {"prepared", "settled", "built", "started"} => ~PrepareRefuses(config)
  /\ stage \in {"settled", "built", "started"} =>
       ~FinishRefuses(config, contents) /\ secrets = Derived(config, contents)
  /\ stage \in {"built", "started"} => dropped = Environment(config, secrets)
  /\ stage = "started" => \E given \in SUBSET Fields : command = Started(config, dropped, given)

LEMMA DerivationHolds == Spec => []Derivation
<1>1. Init => Derivation
  BY DEF Init, Derivation
<1>2. Derivation /\ [Next]_vars => Derivation'
  <2> SUFFICES ASSUME Derivation, [Next]_vars PROVE Derivation'
    OBVIOUS
  <2> USE DEF Derivation, Goes
  <2>1. CASE Fills
    BY <2>1 DEF Fills
  <2>2. CASE Prepares
    BY <2>2 DEF Prepares
  <2>3. CASE Finishes
    BY <2>3 DEF Finishes
  <2>4. CASE BuildsTools
    BY <2>4 DEF BuildsTools
  <2>5. CASE StartsCommand
    BY <2>5 DEF StartsCommand, Started
  <2>6. CASE UNCHANGED vars
    BY <2>6 DEF vars
  <2> QED
    BY <2>1, <2>2, <2>3, <2>4, <2>5, <2>6 DEF Next
<1> QED
  BY <1>1, <1>2, PTL DEF Spec

-----------------------------------------------------------------------------
LEMMA EntryIs ==
  ASSUME NEW c \in Configs, NEW field, NEW key \in Entries(c, field)
  PROVE  key = [field |-> field, name |-> key.name] /\ IsStated(c, key)
BY ConfigsAssumption DEF Entries, At

\* What a config's entry under a name gives it.
LEMMA EntryValueIs ==
  ASSUME NEW c \in Configs, NEW field, NEW name \in DOMAIN EntryValues(c, field)
  PROVE  LET key == [field |-> field, name |-> name]
         IN  /\ key \in Entries(c, field) /\ IsStated(c, key)
             /\ EntryValues(c, field)[name] = Value(c, key)
BY EntryIs DEF EntryValues

\* Fewer values cut no more.
LEMMA HoldsOfMore ==
  ASSUME NEW V, NEW W, W \subseteq V, NEW text, Holds(W, text)
  PROVE  Holds(V, text)
BY DEF Holds, Cuts

LEMMA NoEnvHolds ==
  ASSUME NEW c, NEW file, ~PrepareRefuses(c), ~FinishRefuses(c, file)
  PROVE  ~EnvHoldsACredential(c, file)
BY DEF PrepareRefuses, FinishRefuses

\* Where each variable of a command comes from.
IsContext(name) == name \in Fields \ Kept(config, dropped) /\ command[name] = TraceContext
IsGiven(name) ==
  /\ Credential(name) \in Entries(config, "credentials")
  /\ IsStated(config, Credential(name))
  /\ command[name] = Value(config, Credential(name))
IsSet(name) ==
  /\ Env(name) \in Entries(config, "env")
  /\ command[name] = Value(config, Env(name))
IsInherited(name) ==
  /\ name \in DOMAIN config.base \ (dropped.byName \union dropped.byValue)
  /\ name \notin Stated(config) \union Contextual
  /\ command[name] = config.base[name]

LEMMA WhereFrom ==
  ASSUME Derivation, stage = "started", NEW name \in DOMAIN command
  PROVE  IsContext(name) \/ IsGiven(name) \/ IsSet(name) \/ IsInherited(name)
<1> DEFINE kept == Kept(config, dropped)
           environment == dropped.environment
           under == DOMAIN config.base \ (dropped.byName \union dropped.byValue)
           inherits == DOMAIN environment \ (Contextual \ kept)
           credentials == EntryValues(config, "credentials")
           env == EntryValues(config, "env")
<1>1. PICK given \in SUBSET Fields :
        command = Over([n \in given \ kept |-> TraceContext], Restrict(environment, inherits))
  BY DEF Derivation, Started
<1>2. environment = Over(Over(credentials, env), Restrict(config.base, under))
  BY DEF Derivation, Environment, Entered
<1>3. config \in Configs
  BY DEF Derivation
<1>4. DOMAIN credentials \union DOMAIN env = Stated(config)
  BY DEF EntryValues, Stated
<1>5. name \in given \ kept => command[name] = TraceContext
  BY <1>1 DEF Over
<1>6. name \notin given \ kept => name \in inherits /\ command[name] = environment[name]
  BY <1>1 DEF Over, Restrict
<1>7. name \in DOMAIN credentials => environment[name] = credentials[name]
  BY <1>2 DEF Over
<1>8. name \in DOMAIN env \ DOMAIN credentials => environment[name] = env[name]
  BY <1>2 DEF Over
<1>9. name \in DOMAIN environment \ Stated(config) =>
        name \in under /\ environment[name] = config.base[name]
  BY <1>2, <1>4 DEF Over, Restrict
<1>10. name \in under \ Stated(config) => name \notin kept
  BY DEF Kept
<1>11. CASE name \in given \ kept
  BY <1>5, <1>11 DEF IsContext
<1>12. CASE name \in DOMAIN credentials /\ name \notin given \ kept
  <2>1. /\ Credential(name) \in Entries(config, "credentials")
        /\ IsStated(config, Credential(name))
        /\ credentials[name] = Value(config, Credential(name))
    BY <1>3, <1>12, EntryValueIs DEF Credential
  <2> QED
    BY <1>6, <1>7, <1>12, <2>1 DEF IsGiven
<1>13. CASE name \in DOMAIN env \ DOMAIN credentials /\ name \notin given \ kept
  <2>1. Env(name) \in Entries(config, "env") /\ env[name] = Value(config, Env(name))
    BY <1>3, <1>13, EntryValueIs DEF Env
  <2> QED
    BY <1>6, <1>8, <1>13, <2>1 DEF IsSet
<1>14. CASE name \notin Stated(config) /\ name \notin given \ kept
  <2>1. name \in inherits
    BY <1>6, <1>14
  <2>2. name \in DOMAIN environment \ Stated(config)
    BY <1>14, <2>1
  <2>3. name \notin kept
    BY <1>9, <1>10, <2>2
  <2>4. name \notin Contextual
    BY <2>1, <2>3
  <2> HIDE DEF kept, environment
  <2> QED
    BY <1>6, <1>9, <1>14, <2>2, <2>4 DEF IsInherited
<1> HIDE DEF kept, environment, under, inherits, credentials, env
<1> QED
  BY <1>4, <1>11, <1>12, <1>13, <1>14

\* What a command gets otherwise than from credentials holds no credential.
LEMMA NoneHeld ==
  ASSUME Derivation, stage = "started", NEW name \in DOMAIN command, ~IsGiven(name)
  PROVE  ~Holds(secrets.values, command[name])
<1>1. /\ config \in Configs /\ contents \in Contents
      /\ ~CantFill(config) /\ ~PrepareRefuses(config) /\ ~FinishRefuses(config, contents)
      /\ secrets = Derived(config, contents)
      /\ dropped = Environment(config, secrets)
  BY DEF Derivation
<1>2. CASE IsContext(name)
  BY <1>1, <1>2, ContextAssumption DEF IsContext
<1>3. CASE IsSet(name)
  <2>1. ~EnvHoldsACredential(config, contents)
    BY <1>1, NoEnvHolds
  <2> QED
    BY <1>1, <1>3, <2>1 DEF IsSet, EnvHoldsACredential
<1>4. CASE IsInherited(name)
  BY <1>1, <1>4 DEF IsInherited, Environment
<1> QED
  BY <1>2, <1>3, <1>4, WhereFrom

LEMMA ValuesAreMatchers ==
  secrets = Derived(config, contents) =>
    secrets.values = UNION {credential.matcher : credential \in secrets.own \union secrets.given}
BY DEF Derived

LEMMA NoneInherits ==
  ASSUME Derivation
  PROVE  NoProcessInherits
<1> SUFFICES ASSUME stage = "started", NEW credential \in secrets.own,
                    GivenBy(config, credential) = {}, NEW name \in DOMAIN command
             PROVE  ~Holds(credential.matcher, command[name])
  BY DEF NoProcessInherits
<1>1. CASE IsGiven(name)
  BY <1>1 DEF IsGiven, GivenBy
<1>2. CASE ~IsGiven(name)
  <2>1. credential.matcher \subseteq secrets.values
    BY ValuesAreMatchers DEF Derivation
  <2>2. ~Holds(secrets.values, command[name])
    BY <1>2, NoneHeld
  <2> QED
    BY <2>1, <2>2, HoldsOfMore
<1> QED
  BY <1>1, <1>2

LEMMA SaidOfInherited ==
  ASSUME Derivation
  PROVE  InheritedAsSaid
<1> SUFFICES ASSUME stage = "started" PROVE InheritedAsSaid
  BY DEF InheritedAsSaid
<1> DEFINE kept == Kept(config, dropped)
           environment == dropped.environment
           under == DOMAIN config.base \ (dropped.byName \union dropped.byValue)
           inherits == DOMAIN environment \ (Contextual \ kept)
<1>1. /\ config \in Configs /\ ~CantFill(config) /\ ~PrepareRefuses(config)
      /\ secrets = Derived(config, contents)
      /\ dropped = Environment(config, secrets)
  BY DEF Derivation
<1>2. PICK given \in SUBSET Fields :
        command = Over([n \in given \ kept |-> TraceContext], Restrict(environment, inherits))
  BY DEF Derivation, Started
<1>3. ASSUME NEW name \in Inherited(config, dropped)
      PROVE  name \in DOMAIN command \ Stated(config) /\ IsInherited(name)
  <2>1. name \in DOMAIN environment /\ name \notin Contextual \union Stated(config)
    BY <1>3 DEF Inherited
  <2>2. name \in DOMAIN command
    BY <1>2, <2>1 DEF Over, Restrict
  <2>3. ~IsContext(name)
    BY <2>1 DEF IsContext, Contextual
  <2>4. ~IsGiven(name) /\ ~IsSet(name)
    BY <2>1 DEF IsGiven, IsSet, Stated, Credential, Env
  <2> QED
    BY <2>1, <2>2, <2>3, <2>4, WhereFrom
<1>4. \A name \in DOMAIN config.base \ Contextual : config.base[name] # TraceContext
  BY <1>1, ContextAssumption
<1>5. ASSUME NEW name \in DOMAIN command \ Stated(config), command[name] # TraceContext
      PROVE  name \in Inherited(config, dropped)
  <2>1. ~IsContext(name)
    BY <1>5 DEF IsContext
  <2>2. ~IsGiven(name) /\ ~IsSet(name)
    BY DEF IsGiven, IsSet, Stated, Credential, Env
  <2>3. IsInherited(name)
    BY <2>1, <2>2, WhereFrom
  <2>4. name \notin given \ kept
    BY <2>3 DEF IsInherited, Contextual
  <2>5. name \in DOMAIN environment
    BY <1>2, <2>4 DEF Over, Restrict
  <2> QED
    BY <2>3, <2>5 DEF IsInherited, Inherited
<1>6. ASSUME NEW name \in dropped.byValue PROVE CopiesOf(config, secrets, name) # {}
  <2>1. Holds(secrets.values, config.base[name])
    BY <1>1 DEF Environment
  <2>2. PICK k \in secrets.own \union secrets.given : Holds(k.matcher, config.base[name])
    BY <1>1, <2>1, ValuesAreMatchers DEF Holds, Cuts
  <2> QED
    BY <2>2 DEF CopiesOf
<1> QED
  BY <1>3, <1>4, <1>5, <1>6 DEF InheritedAsSaid, IsInherited

\* What check prints of a command's environment is what a command gets, and a
\* credential it says reaches no process reaches none, for every config that's
\* accepted and whatever the process's environment holds (tools-wiring
\* inherited, prepare's report of own credentials).
THEOREM SaidOfCommandsHolds == Spec => []SaidOfCommands
<1>1. Derivation => SaidOfCommands
  BY NoneInherits, SaidOfInherited DEF SaidOfCommands
<1> QED
  BY <1>1, DerivationHolds, PTL

-----------------------------------------------------------------------------
(* Least and greatest numbers, and texts put together.                      *)

\* Numbers have a least one among them.
LEMMA LeastNumber ==
  ASSUME NEW T \in SUBSET Nat, T # {}
  PROVE  \E n \in T : \A m \in T : n <= m
<1>1. IsWellFoundedOn(OpToRel(<,Nat), Nat)
  BY NatLessThanWellFounded
<1>2. PICK n \in T : \A y \in T : ~(<<y, n>> \in OpToRel(<,Nat))
  BY <1>1, WFMin
<1>3. \A y \in T : ~(y < n)
  BY <1>2 DEF OpToRel
<1> QED
  BY <1>3

LEMMA MinIs ==
  ASSUME NEW T \in SUBSET Nat, T # {}
  PROVE  Min(T) \in T /\ \A m \in T : Min(T) <= m
BY LeastNumber DEF Min

\* So have the numbers up to one a greatest.
LEMMA MaxIs ==
  ASSUME NEW n \in Nat, NEW T \in SUBSET (0..n), T # {}
  PROVE  Max(T) \in T /\ \A m \in T : m <= Max(T)
<1> DEFINE below == {n - m : m \in T}
<1>1. below \in SUBSET Nat /\ below # {}
  <2>1. \A m \in 0..n : n - m \in Nat
    OBVIOUS
  <2>2. \A m \in T : n - m \in Nat
    BY <2>1
  <2> QED
    BY <2>2
<1>2. PICK d \in below : \A e \in below : d <= e
  <2> HIDE DEF below
  <2> QED BY <1>1, LeastNumber
<1>3. PICK m \in T : d = n - m
  OBVIOUS
<1>4. \A k \in T : m >= k
  <2> TAKE k \in T
  <2>1. n - k \in below
    OBVIOUS
  <2>2. d <= n - k
    BY <1>2, <2>1
  <2> QED
    BY <1>3, <2>2
<1>5. \E big \in T : \A k \in T : big >= k
  BY <1>4
<1>6. Max(T) \in T /\ \A k \in T : Max(T) >= k
  BY <1>5 DEF Max
<1> QED
  BY <1>6

\* What holds of zero and of each number after one that it holds of, holds of
\* all of them: induction over a set of numbers.
LEMMA Inductive ==
  ASSUME NEW n \in Nat, NEW T, 0 \in T, \A i \in 1..n : i - 1 \in T => i \in T
  PROVE  0..n \subseteq T
<1> DEFINE out == {i \in 0..n : i \notin T}
<1> SUFFICES ASSUME out # {} PROVE FALSE
  OBVIOUS
<1>0. out \in SUBSET Nat
  OBVIOUS
<1>1. PICK i \in out : \A m \in out : i <= m
  <2> HIDE DEF out
  <2> QED
    BY <1>0, LeastNumber
<1>2. i \in 1..n /\ i - 1 \in 0..n
  BY <1>1
<1>3. i - 1 \notin out
  BY <1>1, <1>2
<1> QED
  BY <1>1, <1>2, <1>3

\* What a sequence of texts comes to is reached text by text.
LEMMA FlattenedBy ==
  ASSUME NEW S, NEW seqs \in Seq(Seq(S)), Len(seqs) # 0
  PROVE  \E f \in [1..Len(seqs) -> Seq(S)] :
           /\ f[1] = seqs[1] /\ \A i \in 2..Len(seqs) : f[i] = f[i - 1] \o seqs[i]
           /\ FlattenSeq(seqs) = f[Len(seqs)]
<1> DEFINE n == Len(seqs)
           Flattens(f, k) ==
             f = [i \in 1..k |-> IF i = 1 THEN seqs[i] ELSE f[i - 1] \o seqs[i]]
<1>0. n \in Nat \ {0} /\ \A i \in 1..n : seqs[i] \in Seq(S)
  OBVIOUS
<1>1. FlattenSeq(seqs) = (CHOOSE f : Flattens(f, n))[n]
  BY DEF FlattenSeq
<1> HIDE DEF n
<1>2. ASSUME NEW f, Flattens(f, n)
      PROVE  /\ f \in [1..n -> Seq(S)]
             /\ f[1] = seqs[1] /\ \A i \in 2..n : f[i] = f[i - 1] \o seqs[i]
  <2>1. DOMAIN f = 1..n /\ f = [i \in 1..n |-> f[i]]
    BY <1>2
  <2>a. \A i \in 1..n : f[i] = IF i = 1 THEN seqs[i] ELSE f[i - 1] \o seqs[i]
    BY <1>2
  <2>b. 1 \in 1..n /\ \A i \in 2..n : i \in 1..n /\ i # 1
    BY <1>0
  <2> HIDE DEF Flattens
  <2>2. f[1] = seqs[1] /\ \A i \in 2..n : f[i] = f[i - 1] \o seqs[i]
    BY <2>a, <2>b
  <2> DEFINE out == {i \in 1..n : f[i] \notin Seq(S)}
  <2>3. out = {}
    <3> SUFFICES ASSUME out # {} PROVE FALSE
      OBVIOUS
    <3>1. out \in SUBSET Nat
      <4>1. out \subseteq 1..n
        OBVIOUS
      <4> HIDE DEF out
      <4> QED BY <1>0, <4>1
    <3>2. PICK i \in out : \A m \in out : i <= m
      <4> HIDE DEF out
      <4> QED BY <3>1, LeastNumber
    <3>3. i # 1
      BY <1>0, <2>2
    <3>4. i \in 2..n /\ i - 1 \in 1..n /\ i - 1 \notin out
      BY <1>0, <3>2, <3>3
    <3>5. f[i - 1] \in Seq(S) /\ seqs[i] \in Seq(S)
      BY <1>0, <3>4
    <3>6. f[i - 1] \o seqs[i] \in Seq(S)
      BY <3>5, ConcatProperties
    <3> QED
      BY <2>2, <3>2, <3>4, <3>6
  <2> QED
    BY <2>1, <2>2, <2>3
<1>3. \E f : Flattens(f, n)
  <2> DEFINE out == {k \in 1..n : ~\E f : Flattens(f, k)}
  <2>1. out = {}
    <3> SUFFICES ASSUME out # {} PROVE FALSE
      OBVIOUS
    <3>1. out \in SUBSET Nat
      <4>1. out \subseteq 1..n
        OBVIOUS
      <4> HIDE DEF out
      <4> QED BY <1>0, <4>1
    <3>2. PICK k \in out : \A m \in out : k <= m
      <4> HIDE DEF out
      <4> QED BY <3>1, LeastNumber
    <3>3. k # 1
      <4>1. Flattens([i \in 1..1 |-> seqs[1]], 1)
        OBVIOUS
      <4> HIDE DEF Flattens
      <4> QED BY <4>1, <3>2
    <3>4. k \in 2..n /\ k - 1 \in 1..n /\ k - 1 \notin out
      <4>1. k \in 1..n
        BY <3>2
      <4> HIDE DEF out
      <4>2. k \in 2..n /\ k - 1 \in 1..n /\ ~(k <= k - 1)
        BY <1>0, <3>3, <4>1
      <4> QED BY <3>2, <4>2
    <3>5. PICK f : Flattens(f, k - 1)
      BY <3>4
    <3> DEFINE g == [i \in 1..k |-> IF i = k THEN f[k - 1] \o seqs[k] ELSE f[i]]
    <3>6. \A i \in 1..k : g[i] = IF i = 1 THEN seqs[i] ELSE g[i - 1] \o seqs[i]
      <4> SUFFICES ASSUME NEW i \in 1..k
                   PROVE  g[i] = IF i = 1 THEN seqs[i] ELSE g[i - 1] \o seqs[i]
        OBVIOUS
      <4>1. CASE i = k
        <5>1. i - 1 \in 1..k /\ i - 1 # k /\ i # 1
          BY <3>4, <4>1
        <5>2. g[i - 1] = f[k - 1] /\ g[i] = f[k - 1] \o seqs[k]
          BY <4>1, <5>1
        <5> QED
          BY <4>1, <5>1, <5>2
      <4>2. CASE i # k
        <5>1. i \in 1..k - 1
          BY <3>4, <4>2
        <5>2. f[i] = IF i = 1 THEN seqs[i] ELSE f[i - 1] \o seqs[i]
          BY <3>5, <5>1
        <5>3. g[i] = f[i]
          BY <4>2
        <5>4. i # 1 => g[i - 1] = f[i - 1]
          BY <3>4, <5>1
        <5> QED
          BY <5>2, <5>3, <5>4
      <4> QED
        BY <4>1, <4>2
    <3>7. Flattens(g, k)
      <4>1. DOMAIN g = 1..k /\ g = [i \in 1..k |-> g[i]]
        OBVIOUS
      <4> HIDE DEF g
      <4> QED
        BY <3>6, <4>1
    <3> HIDE DEF g, Flattens
    <3> QED
      BY <3>2, <3>7
  <2>2. n \in 1..n
    BY <1>0
  <2> HIDE DEF Flattens
  <2> QED
    BY <2>1, <2>2
<1>4. Flattens(CHOOSE f : Flattens(f, n), n)
  <2> HIDE DEF Flattens
  <2> QED BY <1>3
<1> DEFINE h == CHOOSE f : Flattens(f, n)
<1>5. h \in [1..n -> Seq(S)] /\ h[1] = seqs[1] /\ \A i \in 2..n : h[i] = h[i - 1] \o seqs[i]
  <2> HIDE DEF Flattens
  <2> QED BY <1>2, <1>4
<1>6. FlattenSeq(seqs) = h[n]
  BY <1>1
<1> HIDE DEF Flattens, h
<1> QED
  BY <1>5, <1>6 DEF n

\* What a sequence of texts comes to, one after the other, is a text.
LEMMA FlattenedIsText ==
  ASSUME NEW S, NEW seqs \in Seq(Seq(S))
  PROVE  FlattenSeq(seqs) \in Seq(S)
<1>1. CASE Len(seqs) = 0
  <2>1. seqs = <<>>
    BY <1>1
  <2>2. FlattenSeq(seqs) = <<>>
    BY <1>1, <2>1 DEF FlattenSeq
  <2> QED
    BY <2>2
<1>2. CASE Len(seqs) # 0
  <2>1. PICK f \in [1..Len(seqs) -> Seq(S)] : FlattenSeq(seqs) = f[Len(seqs)]
    BY <1>2, FlattenedBy
  <2>2. Len(seqs) \in 1..Len(seqs)
    BY <1>2
  <2> QED
    BY <2>1, <2>2
<1> QED
  BY <1>1, <1>2

\* A sequence of texts that begin as another's come to as much.
LEMMA FlattenedFirst ==
  ASSUME NEW S, NEW v \in Seq(Seq(S)), Len(v) # 0
  PROVE  FlattenSeq(v) = FlattenSeq(SubSeq(v, 1, Len(v) - 1)) \o v[Len(v)]
<1> DEFINE n == Len(v)
           u == SubSeq(v, 1, n - 1)
<1>0. n \in Nat \ {0} /\ \A i \in 1..n : v[i] \in Seq(S)
  OBVIOUS
<1>1. u \in Seq(Seq(S)) /\ Len(u) = n - 1 /\ \A i \in 1..n - 1 : u[i] = v[i]
  <2> DEFINE m == n - 1
  <2>1. m \in 0..Len(v)
    BY <1>0
  <2> HIDE DEF m, n
  <2>2. SubSeq(v, 1, m) \in Seq(Seq(S)) /\ Len(SubSeq(v, 1, m)) = m
    BY <2>1
  <2>3. \A i \in 1..m : SubSeq(v, 1, m)[i] = v[i]
    BY <2>1
  <2> QED BY <2>2, <2>3 DEF m
<1>2. PICK f \in [1..n -> Seq(S)] :
        /\ f[1] = v[1] /\ \A i \in 2..n : f[i] = f[i - 1] \o v[i]
        /\ FlattenSeq(v) = f[n]
  BY FlattenedBy
<1> HIDE DEF n, u
<1>3. CASE n = 1
  <2>1. FlattenSeq(u) = <<>>
    <3>1. u = <<>> /\ Len(u) = 0
      BY <1>1, <1>3
    <3> QED BY <3>1 DEF FlattenSeq
  <2>2. v[1] \in Seq(S)
    BY <1>0, <1>3
  <2>3. <<>> \o v[1] = v[1]
    BY <2>2
  <2> QED
    BY <1>2, <1>3, <2>1, <2>3 DEF n, u
<1>4. CASE n # 1
  <2>0. n - 1 \in Nat \ {0} /\ n \in 2..n
    BY <1>0, <1>4
  <2>a. Len(u) # 0 /\ Len(u) = n - 1
    BY <1>1, <2>0
  <2>b. \E g \in [1..Len(u) -> Seq(S)] :
          /\ g[1] = u[1] /\ \A i \in 2..Len(u) : g[i] = g[i - 1] \o u[i]
          /\ FlattenSeq(u) = g[Len(u)]
    BY <1>1, <2>a, FlattenedBy
  <2>1. PICK g \in [1..n - 1 -> Seq(S)] :
          /\ g[1] = u[1] /\ \A i \in 2..n - 1 : g[i] = g[i - 1] \o u[i]
          /\ FlattenSeq(u) = g[n - 1]
    BY <2>a, <2>b
  <2> DEFINE T == {i \in 0..n - 1 : i = 0 \/ f[i] = g[i]}
  <2>2. ASSUME NEW i \in 1..n - 1, i - 1 \in T PROVE i \in T
    <3>1. CASE i = 1
      BY <1>1, <1>2, <2>0, <2>1, <3>1
    <3>2. ASSUME i # 1 PROVE f[i] = g[i]
      <4>1. i \in 2..n /\ i \in 2..n - 1 /\ i - 1 # 0
        BY <2>0, <3>2
      <4>2. f[i] = f[i - 1] \o v[i] /\ g[i] = g[i - 1] \o u[i] /\ u[i] = v[i] /\ f[i - 1] = g[i - 1]
        BY <1>1, <1>2, <2>1, <2>2, <4>1
      <4> QED BY <4>2
    <3> QED BY <3>1, <3>2, <2>0
  <2>3. 0 \in T
    BY <2>0
  <2> HIDE DEF T
  <2>4. 0..n - 1 \subseteq T
    BY <2>0, <2>2, <2>3, Inductive
  <2>5. f[n - 1] = g[n - 1]
    <3>1. n - 1 \in T /\ n - 1 # 0
      BY <2>0, <2>4
    <3> QED BY <3>1 DEF T
  <2>6. f[n] = f[n - 1] \o v[n]
    BY <1>2, <2>0
  <2> QED
    BY <1>2, <2>1, <2>5, <2>6 DEF n, u
<1> QED
  BY <1>3, <1>4

\* What the first of a sequence of texts come to.
Upto(v, i) == FlattenSeq(SubSeq(v, 1, i))

LEMMA UptoIs ==
  ASSUME NEW S, NEW v \in Seq(Seq(S))
  PROVE  /\ Upto(v, 0) = <<>> /\ Upto(v, Len(v)) = FlattenSeq(v)
         /\ \A i \in 0..Len(v) : Upto(v, i) \in Seq(S)
         /\ \A i \in 1..Len(v) : Upto(v, i) = Upto(v, i - 1) \o v[i]
<1>0. Len(v) \in Nat
  OBVIOUS
<1>1. Upto(v, 0) = <<>>
  <2>1. SubSeq(v, 1, 0) = <<>> /\ Len(SubSeq(v, 1, 0)) = 0
    OBVIOUS
  <2> QED BY <2>1 DEF Upto, FlattenSeq
<1>2. Upto(v, Len(v)) = FlattenSeq(v)
  <2>1. SubSeq(v, 1, Len(v)) = v
    OBVIOUS
  <2> QED BY <2>1 DEF Upto
<1>3. ASSUME NEW i \in 0..Len(v) PROVE SubSeq(v, 1, i) \in Seq(Seq(S)) /\ Len(SubSeq(v, 1, i)) = i
  BY <1>3
<1>4. ASSUME NEW i \in 0..Len(v) PROVE Upto(v, i) \in Seq(S)
  BY <1>3, FlattenedIsText DEF Upto
<1>5. ASSUME NEW i \in 1..Len(v) PROVE Upto(v, i) = Upto(v, i - 1) \o v[i]
  <2> DEFINE u == SubSeq(v, 1, i)
  <2>1. u \in Seq(Seq(S)) /\ Len(u) = i
    BY <1>3
  <2>2. SubSeq(u, 1, i - 1) = SubSeq(v, 1, i - 1) /\ u[i] = v[i]
    OBVIOUS
  <2> HIDE DEF u
  <2>3. FlattenSeq(u) = FlattenSeq(SubSeq(u, 1, Len(u) - 1)) \o u[Len(u)]
    <3>1. Len(u) # 0
      BY <2>1
    <3> QED BY <2>1, <3>1, FlattenedFirst
  <2> QED BY <2>1, <2>2, <2>3 DEF Upto, u
<1> QED
  BY <1>1, <1>2, <1>4, <1>5

-----------------------------------------------------------------------------
(* The texts that are read of a config, and that its credentials cover them. *)

\* A config that fills.
Lasting(c) == c \in Configs /\ ~CantFill(c)

\* A setting that's stated holds a text.
LEMMA ValueIsText ==
  ASSUME NEW c, Lasting(c), NEW key \in Keys(c), IsStated(c, key)
  PROVE  Value(c, key) \in Texts
<1>1. CASE key \in DOMAIN c.code
  BY <1>1, ConfigsAssumption DEF Value, Lasting
<1>2. CASE key \notin DOMAIN c.code
  <2> DEFINE written == c.written[key]
             came == [i \in DOMAIN written |-> CameTo(c.variables, written[i])]
  <2>1. key \in DOMAIN c.written /\ ~Lacks(c.variables, written)
    BY <1>2 DEF IsStated, CameOutUnstated, Lasting, CantFill
  <2>2. /\ written \in Seq(Range(written))
        /\ \A piece \in Range(written) : piece.default \in Texts \union {NoDefault}
        /\ \A name \in DOMAIN c.variables : c.variables[name] \in Texts
    BY <2>1, ConfigsAssumption DEF Lasting
  <2>3. Value(c, key) = FlattenSeq(came)
    BY <1>2 DEF Value, Text
  <2> HIDE DEF written
  <2>4. ASSUME NEW i \in DOMAIN written PROVE CameTo(c.variables, written[i]) \in Texts
    <3>1. written[i] \in Range(written)
      BY DEF Range
    <3>2. written[i].default = NoDefault => written[i].name \in DOMAIN c.variables
      BY <2>1, <3>1 DEF Lacks
    <3> QED
      BY <2>2, <3>1, <3>2 DEF CameTo, GivesValue
  <2>5. came \in Seq(Texts)
    <3>1. Len(written) \in Nat /\ DOMAIN written = 1..Len(written)
      BY <2>2
    <3>2. came \in [1..Len(written) -> Texts]
      BY <2>4, <3>1
    <3> QED
      BY <3>1, <3>2
  <2> HIDE DEF came
  <2> QED
    BY <2>3, <2>5, FlattenedIsText DEF Texts
<1> QED
  BY <1>1, <1>2

LEMMA DecodedIsText ==
  ASSUME NEW text \in Texts
  PROVE  Decoded(text) \in Texts
<1>1. Len(text) \in Nat /\ DOMAIN text = 1..Len(text) /\ \A i \in 1..Len(text) : text[i] \in DOMAIN Size
  BY DEF Texts
<1>2. Decoded(text) \in [1..Len(text) -> DOMAIN Size]
  BY <1>1, ConfigsAssumption DEF Decoded
<1> QED
  BY <1>1, <1>2 DEF Texts

LEMMA PartIsText ==
  ASSUME NEW text \in Texts, NEW m \in Nat \ {0}, NEW n \in Int, n <= Len(text)
  PROVE  SubSeq(text, m, n) \in Texts
<1>1. text \in Seq(DOMAIN Size)
  BY DEF Texts
<1>2. CASE m <= n
  BY <1>1, <1>2 DEF Texts
<1>3. CASE n < m
  <2>1. SubSeq(text, m, n) = <<>>
    BY <1>1, <1>3
  <2> QED
    BY <2>1 DEF Texts
<1> QED
  BY <1>2, <1>3

LEMMA FirstIs ==
  ASSUME NEW text \in Texts, NEW words, NEW from \in Nat \ {0}
  PROVE  First(text, words, from) \in 1..Len(text) + 1
<1> DEFINE T == {Len(text) + 1} \union {i \in from..Len(text) : text[i] \in words}
<1>0. Len(text) \in Nat
  BY DEF Texts
<1>1. T \subseteq 1..Len(text) + 1 /\ T # {}
  BY <1>0
<1>2. First(text, words, from) = Min(T)
  BY DEF First
<1> HIDE DEF T
<1>3. T \in SUBSET Nat
  BY <1>0, <1>1
<1>4. Min(T) \in T
  BY <1>1, <1>3, MinIs
<1> QED
  BY <1>1, <1>2, <1>4

LEMMA InformationIsText ==
  ASSUME NEW text \in Texts, HasInformation(text)
  PROVE  Information(text) \in Texts
<1> DEFINE start == AuthorityStart(text)
           end == AuthorityEnd(text)
<1>0. Len(text) \in Nat
  BY DEF Texts
<1>1. First(text, {"://"}, 1) \in 1..Len(text) + 1
  BY FirstIs
<1>2. start \in Nat \ {0}
  BY <1>0, <1>1 DEF AuthorityStart
<1>3. end \in 1..Len(text) + 1
  <2> HIDE DEF start
  <2>1. First(text, Ends, start) \in 1..Len(text) + 1
    BY <1>2, FirstIs
  <2> QED
    BY <2>1 DEF AuthorityEnd, start
<1>4. Ats(text) \in SUBSET (0..Len(text)) /\ Ats(text) # {}
  <2>1. Ats(text) \subseteq start..end - 1
    BY DEF Ats
  <2> HIDE DEF start, end
  <2>2. start..end - 1 \subseteq 0..Len(text)
    BY <1>0, <1>2, <1>3
  <2> QED
    BY <2>1, <2>2 DEF HasInformation
<1>5. Max(Ats(text)) \in 0..Len(text)
  BY <1>0, <1>4, MaxIs
<1> HIDE DEF start, end
<1>6. SubSeq(text, start, Max(Ats(text)) - 1) \in Texts
  BY <1>0, <1>2, <1>5, PartIsText
<1> QED
  BY <1>6 DEF Information, start

\* The halves of a URL's user information, as the first colon parts it.
Halves(information) ==
  LET colon == First(information, {":"}, 1)
  IN  {SubSeq(information, 1, colon - 1), SubSeq(information, colon + 1, Len(information))}

LEMMA HalvesAreTexts ==
  ASSUME NEW information \in Texts
  PROVE  Halves(information) \subseteq Texts
<1> DEFINE colon == First(information, {":"}, 1)
<1>1. Len(information) \in Nat /\ colon \in 1..Len(information) + 1
  BY FirstIs DEF Texts
<1> HIDE DEF colon
<1>2. SubSeq(information, 1, colon - 1) \in Texts
  BY <1>1, PartIsText
<1>3. SubSeq(information, colon + 1, Len(information)) \in Texts
  BY <1>1, PartIsText
<1> QED
  BY <1>2, <1>3 DEF Halves, colon

LEMMA PairValuesAreTexts ==
  ASSUME NEW text \in Texts
  PROVE  PairValues(text) \subseteq Texts
<1>1. Len(text) \in Nat /\ DOMAIN text = 1..Len(text)
  BY DEF Texts
<1>2. ASSUME NEW i \in DOMAIN text
      PROVE  SubSeq(text, i + 1, First(text, {","}, i) - 1) \in Texts
  <2> DEFINE comma == First(text, {","}, i)
  <2>1. i \in Nat \ {0}
    BY <1>1
  <2>2. comma \in 1..Len(text) + 1
    BY <2>1, FirstIs
  <2> HIDE DEF comma
  <2>3. i + 1 \in Nat \ {0} /\ comma - 1 \in Int /\ comma - 1 <= Len(text)
    BY <1>1, <2>1, <2>2
  <2>4. SubSeq(text, i + 1, comma - 1) \in Texts
    BY <2>3, PartIsText
  <2> QED
    BY <2>4 DEF comma
<1> QED
  BY <1>2 DEF PairValues

-----------------------------------------------------------------------------
\* A text a credential was made of.
Covered(c, file, text) ==
  \E credential \in Own(c, file) \union Given(c) : \E forms \in SUBSET Texts :
    text \in forms /\ credential.matcher = Registered(forms)

LEMMA MadeCovers ==
  ASSUME NEW c, NEW file, NEW key, NEW sources, sources # {}, NEW forms \in SUBSET Texts,
         NEW text \in forms, Made(key, sources, forms) \subseteq Own(c, file) \union Given(c)
  PROVE  Covered(c, file, text)
<1>1. PICK source \in sources : TRUE
  OBVIOUS
<1> DEFINE credential == [field |-> key, source |-> source, matcher |-> Registered(forms)]
<1>2. credential \in Made(key, sources, forms) /\ credential.matcher = Registered(forms)
  BY DEF Made
<1> HIDE DEF credential
<1> QED
  BY <1>2 DEF Covered

\* Where each kind of setting's credentials are among the config's.
LEMMA CredentialsAt ==
  ASSUME NEW c, NEW file
  PROVE  LET all == Own(c, file) \union Given(c)
         IN  /\ \A key \in At(c, "api_key") : SecretAt(c, key) \subseteq all
             /\ \A key \in At(c, "headers") : SecretAt(c, key) \subseteq all
             /\ \A key \in At(c, "credentials") : SecretAt(c, key) \subseteq all
             /\ \A key \in At(c, "headers_text") : HeadersTextSecret(c, key) \subseteq all
             /\ \A key \in At(c, "url") : UrlSecret(c, key) \subseteq all
             /\ file # <<>> =>
                  Made([field |-> "client_key", name |-> ""], {FromContents}, {file}) \subseteq all
<1>1. \A key \in At(c, "credentials") : SecretAt(c, key) \subseteq Given(c)
  BY DEF Given
<1> DEFINE A == UNION {SecretAt(c, key) : key \in At(c, "api_key") \union At(c, "headers")}
           B == UNION {HeadersTextSecret(c, key) : key \in At(c, "headers_text")}
           C == UNION {UrlSecret(c, key) : key \in At(c, "url")}
           D == IF file = <<>> THEN {}
                ELSE Made([field |-> "client_key", name |-> ""], {FromContents}, {file})
<1>2. Own(c, file) = A \union B \union C \union D
  BY DEF Own
<1>3. \A key \in At(c, "api_key") \union At(c, "headers") : SecretAt(c, key) \subseteq A
  OBVIOUS
<1>4. \A key \in At(c, "headers_text") : HeadersTextSecret(c, key) \subseteq B
  OBVIOUS
<1>5. \A key \in At(c, "url") : UrlSecret(c, key) \subseteq C
  OBVIOUS
<1>6. file # <<>> =>
        Made([field |-> "client_key", name |-> ""], {FromContents}, {file}) \subseteq D
  OBVIOUS
<1> HIDE DEF A, B, C, D
<1> QED
  BY <1>1, <1>2, <1>3, <1>4, <1>5, <1>6

LEMMA ValueCovered ==
  ASSUME NEW c, Lasting(c), NEW file, NEW key \in Keys(c), IsCredential(key), IsStated(c, key)
  PROVE  Covered(c, file, Value(c, key))
<1> DEFINE text == Value(c, key)
<1>1. text \in Texts
  BY ValueIsText
<1>2. CASE key.field # "headers_text"
  <2>1. SecretAt(c, key) = Made(key, Sources(c, key), {text})
    BY DEF SecretAt
  <2>2. SecretAt(c, key) \subseteq Own(c, file) \union Given(c)
    BY <1>2, CredentialsAt DEF IsCredential, At
  <2>3. Sources(c, key) # {}
    BY DEF Sources
  <2> HIDE DEF text
  <2> QED
    BY <1>1, <2>1, <2>2, <2>3, MadeCovers DEF text
<1>3. CASE key.field = "headers_text"
  <2> DEFINE forms == {text} \union {Decoded(value) : value \in PairValues(text)}
             sources == IF Names(c, key) # {} THEN {FromVariable(name) : name \in Names(c, key)}
                        ELSE IF IsWritten(c, key) THEN {FromKey} ELSE {FromCode}
  <2>1. HeadersTextSecret(c, key) = Made(key, sources, forms)
    BY DEF HeadersTextSecret
  <2>2. HeadersTextSecret(c, key) \subseteq Own(c, file) \union Given(c)
    BY <1>3, CredentialsAt DEF At
  <2>3. sources # {}
    OBVIOUS
  <2> HIDE DEF text, sources
  <2>4. forms \in SUBSET Texts /\ text \in forms
    BY <1>1, PairValuesAreTexts, DecodedIsText
  <2> HIDE DEF forms
  <2> QED
    BY <2>1, <2>2, <2>3, <2>4, MadeCovers DEF text
<1> QED
  BY <1>2, <1>3

LEMMA PairCovered ==
  ASSUME NEW c, Lasting(c), NEW file, NEW key \in Entries(c, "headers_text"),
         NEW part \in PairValues(Value(c, key))
  PROVE  Covered(c, file, Decoded(part))
<1> DEFINE text == Value(c, key)
           forms == {text} \union {Decoded(value) : value \in PairValues(text)}
           sources == IF Names(c, key) # {} THEN {FromVariable(name) : name \in Names(c, key)}
                      ELSE IF IsWritten(c, key) THEN {FromKey} ELSE {FromCode}
<1>0. key \in Keys(c) /\ key.field = "headers_text" /\ IsStated(c, key)
  BY DEF Entries, At
<1>1. text \in Texts
  BY <1>0, ValueIsText
<1>2. HeadersTextSecret(c, key) = Made(key, sources, forms)
  BY <1>0 DEF HeadersTextSecret
<1>3. HeadersTextSecret(c, key) \subseteq Own(c, file) \union Given(c)
  BY <1>0, CredentialsAt DEF At
<1>4. sources # {}
  OBVIOUS
<1> HIDE DEF text, sources
<1>5. forms \in SUBSET Texts /\ Decoded(part) \in forms
  BY <1>1, PairValuesAreTexts, DecodedIsText DEF text
<1> HIDE DEF forms
<1> QED
  BY <1>2, <1>3, <1>4, <1>5, MadeCovers

LEMMA HalfCovered ==
  ASSUME NEW c, Lasting(c), NEW file, NEW key \in Entries(c, "url"),
         HasInformation(Value(c, key)), NEW half \in Halves(Information(Value(c, key)))
  PROVE  Covered(c, file, half) /\ Covered(c, file, Decoded(half))
<1> DEFINE information == Information(Value(c, key))
           forms == InformationForms(information)
           names == IF IsWritten(c, key) THEN InformationNames(c.written[key]) ELSE {}
           sources == IF names # {} THEN {FromVariable(name) : name \in names}
                      ELSE IF IsWritten(c, key) THEN {FromKey} ELSE {FromCode}
<1>0. key \in Keys(c) /\ key.field = "url" /\ IsStated(c, key)
  BY DEF Entries, At
<1>1. information \in Texts
  BY <1>0, ValueIsText, InformationIsText
<1>2. UrlSecret(c, key) = Made(key, sources, forms)
  BY <1>0 DEF UrlSecret
<1>3. UrlSecret(c, key) \subseteq Own(c, file) \union Given(c)
  BY <1>0, CredentialsAt DEF At
<1>4. sources # {}
  <2> HIDE DEF names
  <2> QED
    OBVIOUS
<1> HIDE DEF information, sources
<1> DEFINE parts == {information} \union Halves(information)
<1>5. forms = parts \union {Decoded(part) : part \in parts}
  BY DEF InformationForms, Halves
<1>6. half \in parts /\ parts \subseteq Texts
  BY <1>1, HalvesAreTexts DEF information
<1> HIDE DEF forms, parts
<1>7. forms \in SUBSET Texts /\ half \in forms /\ Decoded(half) \in forms
  BY <1>5, <1>6, DecodedIsText
<1> QED
  BY <1>2, <1>3, <1>4, <1>7, MadeCovers

LEMMA ContentsCovered ==
  ASSUME NEW c, NEW file \in Contents \ {<<>>}
  PROVE  Covered(c, file, file)
<1> DEFINE key == [field |-> "client_key", name |-> ""]
<1>1. Made(key, {FromContents}, {file}) \subseteq Own(c, file) \union Given(c)
  BY CredentialsAt
<1>2. {file} \in SUBSET Texts
  BY ConfigsAssumption
<1> HIDE DEF key
<1> QED
  BY <1>1, <1>2, MadeCovers

\* A sequence that begins with a word has it as a prefix, and the rest is its tail.
LEMMA BeginsWith ==
  ASSUME NEW S, NEW s \in Seq(S), s # <<>>
  PROVE  IsPrefix(<<s[1]>>, s) /\ Tail(s) \in Seq(S)
<1>1. Len(s) \in Nat \ {0}
  BY EmptySeq
<1>2. s[1] \in S
  BY <1>1, ElementOfSeq
<1> DEFINE one == <<s[1]>>
           begin == SubSeq(s, 1, 1)
           whole == SubSeq(one, 1, 1)
<1>3. one \in Seq(S) /\ Len(one) = 1 /\ one[1] = s[1]
  BY <1>2
<1>4. begin \in Seq(S) /\ Len(begin) = 1 /\ begin[1] = s[1]
  <2>1. \A i \in 1..1 : s[i] \in S
    BY <1>2
  <2>2. /\ begin \in Seq(S)
        /\ Len(begin) = IF 1 <= 1 THEN 1 - 1 + 1 ELSE 0
        /\ \A i \in 1..1 - 1 + 1 : begin[i] = s[1 + i - 1]
    BY ONLY <2>1, SubSeqProperties
  <2> QED
    BY <2>2
<1> HIDE DEF one
<1>5. whole \in Seq(S) /\ Len(whole) = 1 /\ whole[1] = s[1]
  <2>1. \A i \in 1..1 : one[i] \in S
    BY <1>2, <1>3
  <2>2. /\ whole \in Seq(S)
        /\ Len(whole) = IF 1 <= 1 THEN 1 - 1 + 1 ELSE 0
        /\ \A i \in 1..1 - 1 + 1 : whole[i] = one[1 + i - 1]
    BY ONLY <2>1, SubSeqProperties
  <2> QED
    BY <1>3, <2>2
<1> HIDE DEF begin, whole
<1>6. begin = whole
  BY <1>4, <1>5, SeqEqual
<1>7. Len(one) <= Len(s) /\ SubSeq(one, 1, Len(one)) = SubSeq(s, 1, Len(one))
  BY <1>1, <1>3, <1>6 DEF begin, whole
<1> QED
  BY <1>7, HeadTailProperties DEF IsPrefix, one

\* What's covered is cut, and so is its token.
LEMMA CoveredIsCut ==
  ASSUME NEW c, NEW file, NEW text, Covered(c, file, text)
  PROVE  LET values == Derived(c, file).values
         IN  /\ text \in Texts
             /\ Bytes(text) >= MinBytes => text \in values
             /\ text # <<>> /\ text[1] = "Bearer " /\ Bytes(Tail(text)) >= MinBytes =>
                  Tail(text) \in values /\ Tail(text) \in Texts
<1>1. PICK credential \in Own(c, file) \union Given(c), forms \in SUBSET Texts :
        text \in forms /\ credential.matcher = Registered(forms)
  BY DEF Covered
<1>2. Registered(forms) \subseteq Derived(c, file).values
  BY <1>1 DEF Derived
<1>3. text \in Texts /\ text \in Seq(DOMAIN Size)
  BY <1>1 DEF Texts
<1>4. Bytes(text) >= MinBytes => text \in Registered(forms)
  BY <1>1 DEF Registered
<1>5. ASSUME text # <<>>, text[1] = "Bearer ", Bytes(Tail(text)) >= MinBytes
      PROVE  Tail(text) \in Registered(forms) /\ Tail(text) \in Texts
  <2>1. IsPrefix(<<"Bearer ">>, text) /\ Tail(text) \in Seq(DOMAIN Size)
    <3>1. IsPrefix(<<text[1]>>, text) /\ Tail(text) \in Seq(DOMAIN Size)
      BY <1>3, <1>5, BeginsWith
    <3> QED
      BY <1>5, <3>1
  <2>2. Tail(text) \in Texts
    BY <2>1 DEF Texts
  <2> QED
    BY <1>1, <1>5, <2>1, <2>2 DEF Registered
<1> QED
  BY <1>2, <1>3, <1>4, <1>5

LEMMA CarriedAreValues ==
  ASSUME Derivation, stage \in {"settled", "built", "started"}, NEW text \in Carried
  PROVE  text \in secrets.values /\ text \in Texts
<1> DEFINE values == {Value(config, key) : key \in {k \in Keys(config) : IsCredential(k) /\ IsStated(config, k)}}
           pairs == UNION {PairValues(Value(config, key)) : key \in Entries(config, "headers_text")}
           informed == {key \in Entries(config, "url") : HasInformation(Value(config, key))}
           halves == UNION {Halves(Information(Value(config, key))) : key \in informed}
           whole == values \union halves \union {Decoded(part) : part \in pairs \union halves}
           tokens == {Tail(t) : t \in {t \in whole : t # <<>> /\ t[1] = "Bearer "}}
<1>1. /\ Bytes(text) >= MinBytes
      /\ text \in whole \union tokens \union ({contents} \ {<<>>})
  BY DEF Carried, Halves
<1>2. Lasting(config) /\ contents \in Contents /\ secrets = Derived(config, contents)
  BY DEF Derivation, Lasting
<1>3. \A t \in values : Covered(config, contents, t)
  BY <1>2, ValueCovered
<1>4. \A part \in pairs : Covered(config, contents, Decoded(part))
  BY <1>2, PairCovered
<1>5. \A half \in halves : Covered(config, contents, half) /\ Covered(config, contents, Decoded(half))
  BY <1>2, HalfCovered
<1> HIDE DEF values, pairs, halves
<1>6. \A t \in whole : Covered(config, contents, t)
  BY <1>3, <1>4, <1>5
<1> HIDE DEF whole
<1>7. CASE text \in whole
  BY <1>1, <1>2, <1>6, <1>7, CoveredIsCut
<1>8. CASE text \in tokens
  <2>1. PICK t \in whole : t # <<>> /\ t[1] = "Bearer " /\ text = Tail(t)
    BY <1>8
  <2> QED
    BY <1>1, <1>2, <1>6, <2>1, CoveredIsCut
<1>9. CASE text \in {contents} \ {<<>>}
  <2>1. Covered(config, contents, text)
    BY <1>2, <1>9, ContentsCovered
  <2> QED
    BY <1>1, <1>2, <2>1, CoveredIsCut
<1> QED
  BY <1>1, <1>7, <1>8, <1>9

\* A text is cut by itself.
LEMMA CutsItself ==
  ASSUME NEW values, NEW text \in Texts, text \in values
  PROVE  Cuts(values, text)
<1>1. text \in Seq(DOMAIN Size) /\ Len(text) \in Nat
  BY DEF Texts
<1>2. SubSeq(text, 1, 1 + Len(text) - 1) = text /\ 1 \in 1..Len(text) - Len(text) + 1
  BY <1>1
<1> QED
  BY <1>2 DEF Cuts

\* Every value a request carries or a command is given is among the values
\* tools' texts are cut by, for every config that's accepted and whatever fills
\* it: a setting whole, a header's token, a pair of the headers' text and the
\* user and the password of a URL as they're decoded (lablet-secrets, derive).
THEOREM CarriedIsAlwaysCut == Spec => []CarriedIsCut
<1>1. Derivation => CarriedIsCut
  BY CarriedAreValues, CutsItself DEF CarriedIsCut
<1> QED
  BY <1>1, DerivationHolds, PTL

\* No variable of a command holds a value a request carries but what
\* credentials gives it, for every config that's accepted: what's inherited is
\* dropped by its value (environment.rs), what env sets is refused, once more
\* when the client key's file was read (lablet-prepare), and a context is made.
THEOREM OwnAlwaysStaysOut == Spec => []OwnStaysOut
<1>1. Derivation => OwnStaysOut
  <2> SUFFICES ASSUME Derivation, stage = "started", NEW name \in DOMAIN command,
                      NEW text \in Carried, Cuts({text}, command[name])
               PROVE  IsStated(config, Credential(name))
    BY DEF OwnStaysOut
  <2>1. text \in secrets.values
    BY CarriedAreValues
  <2>2. Holds(secrets.values, command[name])
    BY <2>1 DEF Holds, Cuts
  <2>3. IsGiven(name)
    BY <2>2, NoneHeld
  <2> QED
    BY <2>3 DEF IsGiven
<1> QED
  BY <1>1, DerivationHolds, PTL

-----------------------------------------------------------------------------
(* A URL filled piece by piece is read where it's written.                  *)

\* How long they are together.
Past(v, i) == Len(Upto(v, i))

LEMMA UptoGrows ==
  ASSUME NEW S, NEW v \in Seq(Seq(S)), NEW i \in 0..Len(v), NEW j \in i..Len(v)
  PROVE  /\ Past(v, i) <= Past(v, j)
         /\ \A p \in 1..Past(v, i) : Upto(v, j)[p] = Upto(v, i)[p]
<1> DEFINE n == Len(v)
           Grows(k) == /\ Past(v, i) <= Past(v, k)
                       /\ \A p \in 1..Past(v, i) : Upto(v, k)[p] = Upto(v, i)[p]
           T == {k \in 0..n : k < i \/ Grows(k)}
<1>0. n \in Nat /\ i \in 0..n /\ j \in 0..n /\ j >= i
  OBVIOUS
<1>1. \A k \in 0..n : Upto(v, k) \in Seq(S)
  BY UptoIs
<1>2. \A k \in 1..n : Upto(v, k) = Upto(v, k - 1) \o v[k] /\ v[k] \in Seq(S)
  <2>1. \A k \in 1..n : Upto(v, k) = Upto(v, k - 1) \o v[k]
    BY UptoIs, Zenon
  <2>2. \A k \in 1..n : v[k] \in Seq(S)
    OBVIOUS
  <2> QED BY <2>1, <2>2
<1> HIDE DEF n
<1>3. Grows(i)
  BY <1>0, <1>1 DEF Past
<1>4. ASSUME NEW k \in 1..n, k - 1 \in T PROVE k \in T
  <2>1. CASE k < i
    BY <2>1
  <2>2. CASE k = i
    BY <1>3, <2>2
  <2>3. ASSUME k > i PROVE Grows(k)
    <3>1. Grows(k - 1) /\ k - 1 \in 0..n
      BY <1>0, <1>4, <2>3
    <3> DEFINE a == Upto(v, k - 1)
               b == v[k]
    <3>2. a \in Seq(S) /\ b \in Seq(S) /\ Upto(v, k) = a \o b
      BY <1>1, <1>2, <3>1
    <3>3. Past(v, k - 1) = Len(a)
      BY DEF Past
    <3>4. Past(v, i) \in Nat
      BY <1>0, <1>1 DEF Past
    <3>5. Past(v, i) <= Len(a) /\ \A p \in 1..Past(v, i) : a[p] = Upto(v, i)[p]
      BY <3>1, <3>3
    <3> HIDE DEF a, b, Grows
    <3>6. Len(a) \in Nat /\ Len(b) \in Nat /\ Len(a \o b) = Len(a) + Len(b)
      BY <3>2
    <3>7. \A p \in 1..Len(a) : (a \o b)[p] = a[p]
      BY <3>2
    <3>8. Past(v, k) = Len(a) + Len(b)
      BY <3>2, <3>6 DEF Past
    <3> QED
      BY <3>2, <3>4, <3>5, <3>6, <3>7, <3>8 DEF Grows
  <2> HIDE DEF Grows
  <2> QED
    BY <1>0, <2>1, <2>2, <2>3
<1>5. 0 \in T
  BY <1>0, <1>3
<1> HIDE DEF T
<1>6. 0..n \subseteq T
  BY <1>0, <1>4, <1>5, Inductive
<1> HIDE DEF Grows
<1>7. Grows(j)
  BY <1>0, <1>6 DEF T
<1> QED
  BY <1>7 DEF Grows

LEMMA PastIs ==
  ASSUME NEW S, NEW v \in Seq(Seq(S))
  PROVE  /\ Past(v, 0) = 0 /\ Past(v, Len(v)) = Len(FlattenSeq(v))
         /\ \A i \in 0..Len(v) : Past(v, i) \in Nat
         /\ \A i \in 1..Len(v) : Past(v, i) = Past(v, i - 1) + Len(v[i]) /\ Len(v[i]) \in Nat
         /\ \A i \in 0..Len(v) : \A j \in i..Len(v) : Past(v, i) <= Past(v, j)
<1>1. \A i \in 0..Len(v) : Upto(v, i) \in Seq(S)
  BY UptoIs
<1>2. Past(v, 0) = 0 /\ Past(v, Len(v)) = Len(FlattenSeq(v))
  <2>1. Upto(v, 0) = <<>> /\ Upto(v, Len(v)) = FlattenSeq(v)
    BY UptoIs, Zenon
  <2> QED BY <2>1 DEF Past
<1>3. ASSUME NEW i \in 1..Len(v)
      PROVE  Past(v, i) = Past(v, i - 1) + Len(v[i]) /\ Len(v[i]) \in Nat
  <2>1. Upto(v, i) = Upto(v, i - 1) \o v[i] /\ i - 1 \in 0..Len(v)
    <3>1. Upto(v, i) = Upto(v, i - 1) \o v[i]
      BY UptoIs, Zenon
    <3> QED BY <3>1
  <2>2. Upto(v, i - 1) \in Seq(S) /\ v[i] \in Seq(S)
    BY <1>1, <2>1
  <2> QED BY <2>1, <2>2 DEF Past
<1>4. \A i \in 0..Len(v) : Past(v, i) \in Nat
  BY <1>1 DEF Past
<1> QED
  BY <1>2, <1>3, <1>4, UptoGrows

\* Each text stands after those before it.
LEMMA Stands ==
  ASSUME NEW S, NEW v \in Seq(Seq(S)), NEW i \in 1..Len(v), NEW m \in 1..Len(v[i])
  PROVE  /\ Past(v, i - 1) + m \in 1..Len(FlattenSeq(v))
         /\ Past(v, i - 1) + m <= Past(v, i)
         /\ FlattenSeq(v)[Past(v, i - 1) + m] = v[i][m]
<1> DEFINE n == Len(v)
           before == Past(v, i - 1)
           p == before + m
<1>0. n \in Nat /\ i \in 1..n /\ i - 1 \in 0..n /\ i \in 0..n /\ n \in i..n
  OBVIOUS
<1>1. before \in Nat /\ Past(v, i) = before + Len(v[i]) /\ Len(v[i]) \in Nat
  BY <1>0, PastIs
<1>2. Past(v, i) <= Past(v, n) /\ Past(v, n) = Len(FlattenSeq(v)) /\ Past(v, n) \in Nat
  BY <1>0, PastIs
<1>3. \A q \in 1..Past(v, i) : Upto(v, n)[q] = Upto(v, i)[q]
  BY <1>0, UptoGrows
<1>4. Upto(v, i) = Upto(v, i - 1) \o v[i] /\ Upto(v, i - 1) \in Seq(S) /\ v[i] \in Seq(S)
  <2>1. Upto(v, i) = Upto(v, i - 1) \o v[i]
    BY UptoIs, Zenon
  <2>2. \A j \in 0..n : Upto(v, j) \in Seq(S)
    BY UptoIs
  <2> QED BY <1>0, <2>1, <2>2
<1>5. Upto(v, n) = FlattenSeq(v)
  BY UptoIs
<1> DEFINE a == Upto(v, i - 1)
           b == v[i]
<1>6. Len(a) = before
  BY DEF Past
<1>a. a \in Seq(S) /\ b \in Seq(S) /\ m \in 1..Len(b)
  BY <1>4
<1> HIDE DEF a, b
<1>7. (a \o b)[Len(a) + m] = b[m]
  BY <1>a
<1>8. Upto(v, i)[p] = v[i][m]
  BY <1>4, <1>6, <1>7 DEF a, b
<1>9. p \in 1..Past(v, i)
  BY <1>1
<1> HIDE DEF n, before, p
<1>10. p \in 1..Len(FlattenSeq(v)) /\ p <= Past(v, i)
  BY <1>1, <1>2, <1>9
<1>11. FlattenSeq(v)[p] = v[i][m]
  BY <1>3, <1>5, <1>8, <1>9
<1> QED
  BY <1>10, <1>11 DEF p, before

\* And every word stands in one of them.
LEMMA WhichPiece ==
  ASSUME NEW S, NEW v \in Seq(Seq(S)), NEW p \in 1..Len(FlattenSeq(v))
  PROVE  \E i \in 1..Len(v) : \E m \in 1..Len(v[i]) : p = Past(v, i - 1) + m
<1> DEFINE n == Len(v)
           T == {i \in 0..n : p <= Past(v, i)}
<1>0. n \in Nat
  OBVIOUS
<1>1. Past(v, 0) = 0 /\ Past(v, n) = Len(FlattenSeq(v)) /\ \A i \in 0..n : Past(v, i) \in Nat
  BY PastIs
<1>2. \A i \in 1..n : Past(v, i) = Past(v, i - 1) + Len(v[i]) /\ Len(v[i]) \in Nat
  BY PastIs
<1> HIDE DEF n
<1>3. T # {} /\ T \in SUBSET Nat
  <2>1. n \in 0..n /\ p <= Past(v, n)
    BY <1>0, <1>1
  <2>2. 0..n \subseteq Nat
    BY <1>0
  <2> QED BY <2>1, <2>2
<1>4. PICK i \in T : \A k \in T : i <= k
  <2> HIDE DEF T
  <2> QED BY <1>3, LeastNumber
<1>5. i \in 1..n /\ i - 1 \in 0..n
  BY <1>0, <1>1, <1>4
<1>6. ~(p <= Past(v, i - 1))
  BY <1>0, <1>4, <1>5
<1>7. Past(v, i - 1) \in Nat /\ Past(v, i) = Past(v, i - 1) + Len(v[i]) /\ Len(v[i]) \in Nat
  BY <1>1, <1>2, <1>5
<1>8. p <= Past(v, i) /\ p \in Nat
  BY <1>1, <1>4
<1>9. p - Past(v, i - 1) \in 1..Len(v[i])
  BY <1>6, <1>7, <1>8
<1> QED
  BY <1>5, <1>7, <1>9 DEF n

LEMMA FirstFits ==
  ASSUME NEW W, NEW text \in Seq(W), NEW words, NEW from \in Nat \ {0}
  PROVE  LET f == First(text, words, from)
         IN  /\ f \in 1..Len(text) + 1
             /\ f <= Len(text) => f >= from /\ text[f] \in words
             /\ \A i \in from..Len(text) : text[i] \in words => f <= i
<1> DEFINE n == Len(text)
           T == {n + 1} \union {i \in from..n : text[i] \in words}
           f == First(text, words, from)
<1>0. n \in Nat
  OBVIOUS
<1>1. T \in SUBSET Nat /\ n + 1 \in T
  BY <1>0
<1>2. f = Min(T)
  BY DEF First
<1> HIDE DEF T, f
<1>3. f \in T /\ \A m \in T : f <= m
  BY <1>1, <1>2, MinIs
<1> HIDE DEF n
<1>4. f \in 1..n + 1
  BY <1>0, <1>3 DEF T
<1>5. f <= n => f >= from /\ text[f] \in words
  BY <1>0, <1>3 DEF T
<1>6. \A i \in from..n : text[i] \in words => f <= i
  BY <1>3 DEF T
<1> QED
  BY <1>4, <1>5, <1>6 DEF n, f

\* A text whose first word that's a delimiter is an @ has no scheme.
LEMMA StartsAtOnce ==
  ASSUME NEW W, NEW text \in Seq(W), NEW a \in 1..Len(text), text[a] = "@",
         \A p \in 1..a - 1 : text[p] \notin Ends
  PROVE  AuthorityStart(text) = 1
<1> DEFINE scheme == First(text, {"://"}, 1)
           end == First(text, {"/", "@"}, 1)
<1>0. Len(text) \in Nat
  OBVIOUS
<1>1. scheme \in 1..Len(text) + 1 /\ (scheme <= Len(text) => text[scheme] = "://")
  BY FirstFits
<1>2. end <= a
  BY <1>0, FirstFits
<1>3. end \in Nat
  BY <1>0, FirstFits
<1> HIDE DEF scheme, end
<1>4. scheme <= Len(text) => scheme > a
  BY <1>0, <1>1 DEF Ends
<1>5. ~(scheme <= Len(text) /\ end > scheme)
  BY <1>0, <1>1, <1>2, <1>3, <1>4
<1> QED
  BY <1>5 DEF AuthorityStart, scheme, end

\* An authority starts after a scheme's :// that no delimiter comes before.
LEMMA StartsAfterScheme ==
  ASSUME NEW W, NEW text \in Seq(W), NEW s \in 1..Len(text), text[s] = "://",
         \A p \in 1..s - 1 : text[p] \notin Delimiters
  PROVE  AuthorityStart(text) = s + 1
<1> DEFINE scheme == First(text, {"://"}, 1)
           end == First(text, {"/", "@"}, 1)
<1>0. Len(text) \in Nat
  OBVIOUS
<1>1. scheme \in 1..Len(text) + 1 /\ (scheme <= Len(text) => text[scheme] = "://")
  BY FirstFits
<1>2. scheme <= s
  BY <1>0, FirstFits
<1>3. end \in 1..Len(text) + 1 /\ (end <= Len(text) => text[end] \in {"/", "@"})
  BY FirstFits
<1> HIDE DEF scheme, end
<1>4. scheme = s
  BY <1>0, <1>1, <1>2 DEF Delimiters
<1>5. end > s
  BY <1>0, <1>3 DEF Delimiters
<1> QED
  BY <1>4, <1>5 DEF AuthorityStart, scheme, end

\* Where a text's @ stands, when it has one and its authority holds it.
OnlyAt(text, a) == a \in 1..Len(text) /\ text[a] = "@" /\ \A p \in 1..Len(text) : text[p] = "@" => p = a

LEMMA ReadTo ==
  ASSUME NEW W, NEW text \in Seq(W), NEW s \in 0..Len(text), NEW a \in s + 1..Len(text),
         AuthorityStart(text) = s + 1, OnlyAt(text, a), \A p \in s + 1..a - 1 : text[p] \notin Ends
  PROVE  HasInformation(text) /\ Max(Ats(text)) = a
<1> DEFINE end == First(text, Ends, s + 1)
<1>0. Len(text) \in Nat /\ s \in Nat /\ a \in Nat
  OBVIOUS
<1>1. end \in 1..Len(text) + 1 /\ (end <= Len(text) => end >= s + 1 /\ text[end] \in Ends)
  BY <1>0, FirstFits
<1>2. AuthorityEnd(text) = end
  BY DEF AuthorityEnd
<1> HIDE DEF end
<1>3. text[a] \notin Ends
  BY DEF OnlyAt, Ends
<1>4. end > a
  BY <1>0, <1>1, <1>3
<1>5. a \in s + 1..end - 1
  BY <1>0, <1>1, <1>4
<1>6. \A p \in s + 1..end - 1 : text[p] = "@" => p = a
  BY <1>0, <1>1 DEF OnlyAt
<1>7. Ats(text) = {a}
  BY <1>2, <1>5, <1>6 DEF Ats, OnlyAt
<1>8. Max({a}) = a
  BY <1>0 DEF Max
<1> QED
  BY <1>7, <1>8 DEF HasInformation

\* No @ past the authority keeps what's before a scheme's :// that stands
\* before the @ free of delimiters.
LEMMA NothingBefore ==
  ASSUME NEW W, NEW text \in Seq(W), NEW a, OnlyAt(text, a), NEW s \in 1..a - 1, text[s] = "://",
         ~HoldsUnreadAt(text)
  PROVE  \A p \in 1..s - 1 : text[p] \notin Delimiters
<1> DEFINE scheme == First(text, {"://"}, 1)
           end == First(text, {"/", "@"}, 1)
           start == AuthorityStart(text)
<1>0. Len(text) \in Nat /\ a \in 1..Len(text) /\ s \in 1..Len(text) /\ s < a
  BY DEF OnlyAt
<1>1. scheme \in 1..Len(text) + 1 /\ (scheme <= Len(text) => text[scheme] = "://") /\ scheme <= s
  BY <1>0, FirstFits
<1>2. /\ end \in 1..Len(text) + 1 /\ (end <= Len(text) => text[end] \in {"/", "@"})
      /\ \A p \in 1..Len(text) : text[p] \in {"/", "@"} => end <= p
  BY <1>0, FirstFits
<1>3. start = IF end > scheme THEN scheme + 1 ELSE 1
  BY <1>0, <1>1 DEF AuthorityStart
<1>4. start \in Nat \ {0}
  BY <1>0, <1>1, <1>2, <1>3
<1> HIDE DEF scheme, end, start
<1>5. \A p \in start..Len(text) : text[p] \in Ends => AuthorityEnd(text) <= p
  BY <1>4, FirstFits DEF AuthorityEnd, start
<1>6. AuthorityEnd(text) \in 1..Len(text) + 1
  BY <1>4, FirstFits DEF AuthorityEnd, start
<1>7. AuthorityEnd(text) > a
  BY <1>0, <1>6 DEF HoldsUnreadAt, OnlyAt
<1>8. \A p \in start..a - 1 : text[p] \notin Ends
  BY <1>0, <1>4, <1>5, <1>6, <1>7
<1>9. end > scheme /\ scheme = s
  <2>1. CASE ~(end > scheme)
    <3>1. start = 1
      BY <1>3, <2>1
    <3>2. scheme \in start..a - 1
      BY <1>0, <1>1, <3>1
    <3> QED BY <1>0, <1>1, <1>8, <3>2 DEF Ends
  <2>2. CASE end > scheme
    <3>1. start = scheme + 1
      BY <1>3, <2>2
    <3>2. ~(s \in start..a - 1)
      BY <1>8 DEF Ends
    <3>3. s < scheme + 1
      BY <1>0, <1>4, <3>1, <3>2
    <3> QED BY <1>0, <1>1, <2>2, <3>3
  <2> QED BY <2>1, <2>2
<1>10. ASSUME NEW p \in 1..s - 1 PROVE text[p] \notin Delimiters
  <2>1. p \in 1..Len(text) /\ p < s
    BY <1>0
  <2>2. text[p] \notin {"/", "@"}
    BY <1>0, <1>2, <1>9, <2>1
  <2>3. text[p] # "://"
    <3>1. \A i \in 1..Len(text) : text[i] = "://" => scheme <= i
      BY FirstFits DEF scheme
    <3> QED BY <1>0, <1>9, <2>1, <3>1
  <2> QED BY <2>2, <2>3 DEF Delimiters
<1> QED
  BY <1>10

\* The texts v are a written URL's pieces: its @ is word x of piece k, and its
\* scheme's :// word y of piece q, or q is 0 and there's no scheme.
SchemeAt(v, q, y) == IF q = 0 THEN 0 ELSE Past(v, q - 1) + y

WrittenAs(v, q, y, k, x) ==
  /\ k \in 1..Len(v) /\ x \in 1..Len(v[k]) /\ q \in 0..k
  /\ q # 0 => y \in 1..Len(v[q]) /\ v[q][y] = "://" /\ (q = k => y < x)
  /\ OnlyAt(FlattenSeq(v), Past(v, k - 1) + x)
  /\ \A p \in SchemeAt(v, q, y) + 1..(Past(v, k - 1) + x) - 1 : FlattenSeq(v)[p] \notin Ends

\* The texts w are what those pieces come to with values given for the ones in
\* G, and its scheme's :// stands where they put it.
FilledAs(v, w, G, q, k) ==
  /\ Len(w) = Len(v) /\ G \subseteq 1..Len(v) /\ k \notin G
  /\ \A i \in 1..Len(v) : i \notin G => w[i] = v[i]
  /\ \A i \in G : \A m \in 1..Len(w[i]) :
       w[i][m] # "@" /\ (q < i /\ i < k => w[i][m] \notin Ends)
  /\ q \in G => Len(w[q]) # 0 /\ w[q][Len(w[q])] = "://"

SchemeIn(w, G, q, y) == IF q \in G THEN Past(w, q) ELSE SchemeAt(w, q, y)

LEMMA FilledReads ==
  ASSUME NEW S, NEW v \in Seq(Seq(S)), NEW W, NEW w \in Seq(Seq(W)), NEW G, NEW q, NEW y, NEW k, NEW x,
         WrittenAs(v, q, y, k, x), FilledAs(v, w, G, q, k)
  PROVE  LET text == FlattenSeq(w)
             s == SchemeIn(w, G, q, y)
             a == Past(w, k - 1) + x
         IN  /\ OnlyAt(text, a) /\ s \in 0..a - 1 /\ (s # 0 => text[s] = "://")
             /\ \A p \in s + 1..a - 1 : text[p] \notin Ends
<1> DEFINE n == Len(v)
           text == FlattenSeq(w)
           s == SchemeIn(w, G, q, y)
           a == Past(w, k - 1) + x
           t == SchemeAt(v, q, y)
           b == Past(v, k - 1) + x
<1>0. n \in Nat /\ Len(w) = n /\ k \in 1..n /\ q \in 0..k
  BY DEF WrittenAs, FilledAs
<1>1. /\ \A i \in 0..n : Past(v, i) \in Nat
      /\ \A i \in 1..n : Past(v, i) = Past(v, i - 1) + Len(v[i]) /\ Len(v[i]) \in Nat
      /\ \A i \in 0..n : \A j \in i..n : Past(v, i) <= Past(v, j)
  BY PastIs
<1>2. /\ \A i \in 0..n : Past(w, i) \in Nat
      /\ \A i \in 1..n : Past(w, i) = Past(w, i - 1) + Len(w[i]) /\ Len(w[i]) \in Nat
      /\ \A i \in 0..n : \A j \in i..n : Past(w, i) <= Past(w, j)
  <2> HIDE DEF n
  <2>1. /\ \A i \in 0..Len(w) : Past(w, i) \in Nat
        /\ \A i \in 1..Len(w) : Past(w, i) = Past(w, i - 1) + Len(w[i]) /\ Len(w[i]) \in Nat
        /\ \A i \in 0..Len(w) : \A j \in i..Len(w) : Past(w, i) <= Past(w, j)
    BY PastIs
  <2> QED BY <1>0, <2>1
<1>3. \A i \in 1..n : \A m \in 1..Len(v[i]) : FlattenSeq(v)[Past(v, i - 1) + m] = v[i][m]
                                              /\ Past(v, i - 1) + m \in 1..Len(FlattenSeq(v))
  BY Stands
<1>4. \A i \in 1..n : \A m \in 1..Len(w[i]) : text[Past(w, i - 1) + m] = w[i][m]
                                              /\ Past(w, i - 1) + m \in 1..Len(text)
  BY <1>0, Stands
<1>5. \A p \in 1..Len(text) : \E i \in 1..n : \E m \in 1..Len(w[i]) : p = Past(w, i - 1) + m
  BY <1>0, WhichPiece
<1>6. w[k] = v[k] /\ x \in 1..Len(v[k]) /\ k - 1 \in 0..n /\ k \in 0..n
  BY <1>0 DEF WrittenAs, FilledAs
<1>7. OnlyAt(FlattenSeq(v), b)
  BY DEF WrittenAs
<1>8. \A i \in 1..n : i \notin G => w[i] = v[i]
  BY DEF FilledAs
<1>9. \A i \in G : \A m \in 1..Len(w[i]) : w[i][m] # "@" /\ (q < i /\ i < k => w[i][m] \notin Ends)
  BY DEF FilledAs
<1>10. q # 0 => y \in 1..Len(v[q]) /\ v[q][y] = "://" /\ (q = k => y < x)
  BY DEF WrittenAs
<1>11. q \in G => Len(w[q]) # 0 /\ w[q][Len(w[q])] = "://"
  BY DEF FilledAs
<1>12. k \notin G /\ G \subseteq 1..n
  BY DEF FilledAs
<1>13. \A p \in t + 1..b - 1 : FlattenSeq(v)[p] \notin Ends
  BY DEF WrittenAs
<1> HIDE DEF n, text
<1>14. x \in Nat /\ a \in Nat /\ b \in Nat
  <2>1. Len(v[k]) \in Nat
    BY <1>0, <1>1
  <2>2. x \in Nat
    BY <1>6, <2>1
  <2>3. Past(v, k - 1) \in Nat /\ Past(w, k - 1) \in Nat
    BY <1>1, <1>2, <1>6
  <2> QED BY <2>2, <2>3
<1>15. text[a] = v[k][x] /\ a \in 1..Len(text)
  BY <1>0, <1>4, <1>6
<1>16. v[k][x] = "@"
  BY <1>0, <1>3, <1>6, <1>7 DEF OnlyAt
\* A place of a piece before another's is before it.
<1>17. ASSUME NEW i \in 1..n, NEW j \in 1..n, NEW m, NEW l, m \in 1..Len(v[i]), l \in 1..Len(v[j])
       PROVE  /\ Past(v, i - 1) + m \in Nat /\ Past(v, j - 1) + l \in Nat /\ m \in Nat /\ l \in Nat
              /\ i < j => Past(v, i - 1) + m < Past(v, j - 1) + l
  <2>1. i - 1 \in 0..n /\ j - 1 \in 0..n /\ i \in 0..n /\ (i < j => j - 1 \in i..n)
    BY <1>0
  <2>2. Past(v, i - 1) \in Nat /\ Past(v, j - 1) \in Nat /\ Past(v, i) = Past(v, i - 1) + Len(v[i])
        /\ Len(v[i]) \in Nat /\ Len(v[j]) \in Nat
    BY <1>1, <2>1
  <2>3. i < j => Past(v, i) <= Past(v, j - 1)
    BY <1>1, <2>1
  <2> DEFINE before == Past(v, i - 1)
             under == Past(v, j - 1)
             long == Len(v[i])
             wide == Len(v[j])
  <2>4. m \in 1..long /\ l \in 1..wide /\ long \in Nat /\ wide \in Nat
    BY <1>17, <2>2
  <2>5. before \in Nat /\ under \in Nat /\ (i < j => before + long <= under)
    BY <2>2, <2>3
  <2> HIDE DEF before, under, long, wide
  <2>6. /\ before + m \in Nat /\ under + l \in Nat /\ m \in Nat /\ l \in Nat
        /\ i < j => before + m < under + l
    BY <2>4, <2>5
  <2> QED BY <2>6 DEF before, under
<1>18. ASSUME NEW i \in 1..n, NEW j \in 1..n, NEW m, NEW l, m \in 1..Len(w[i]), l \in 1..Len(w[j])
       PROVE  /\ Past(w, i - 1) + m \in Nat /\ Past(w, j - 1) + l \in Nat /\ m \in Nat /\ l \in Nat
              /\ i < j => Past(w, i - 1) + m < Past(w, j - 1) + l
  <2>1. i - 1 \in 0..n /\ j - 1 \in 0..n /\ i \in 0..n /\ (i < j => j - 1 \in i..n)
    BY <1>0
  <2>2. Past(w, i - 1) \in Nat /\ Past(w, j - 1) \in Nat /\ Past(w, i) = Past(w, i - 1) + Len(w[i])
        /\ Len(w[i]) \in Nat /\ Len(w[j]) \in Nat
    BY <1>2, <2>1
  <2>3. i < j => Past(w, i) <= Past(w, j - 1)
    BY <1>2, <2>1
  <2> DEFINE before == Past(w, i - 1)
             under == Past(w, j - 1)
             long == Len(w[i])
             wide == Len(w[j])
  <2>4. m \in 1..long /\ l \in 1..wide /\ long \in Nat /\ wide \in Nat
    BY <1>18, <2>2
  <2>5. before \in Nat /\ under \in Nat /\ (i < j => before + long <= under)
    BY <2>2, <2>3
  <2> HIDE DEF before, under, long, wide
  <2>6. /\ before + m \in Nat /\ under + l \in Nat /\ m \in Nat /\ l \in Nat
        /\ i < j => before + m < under + l
    BY <2>4, <2>5
  <2> QED BY <2>6 DEF before, under
<1>19. OnlyAt(text, a)
  <2>1. ASSUME NEW p \in 1..Len(text), text[p] = "@" PROVE p = a
    <3>0. PICK i \in 1..n : \E m \in 1..Len(w[i]) : p = Past(w, i - 1) + m
      BY <1>5
    <3>1. PICK m \in 1..Len(w[i]) : p = Past(w, i - 1) + m
      BY <3>0
    <3>2. w[i][m] = "@"
      BY <1>4, <2>1, <3>1
    <3>3. w[i] = v[i] /\ m \in 1..Len(v[i])
      BY <1>8, <1>9, <3>1, <3>2
    <3>4. Past(v, i - 1) + m = b
      BY <1>3, <1>7, <3>2, <3>3 DEF OnlyAt
    <3>5. ~(i < k) /\ ~(k < i)
      <4>1. i < k => Past(v, i - 1) + m < Past(v, k - 1) + x
        BY <1>0, <1>6, <1>17, <3>3
      <4>2. k < i => Past(v, k - 1) + x < Past(v, i - 1) + m
        BY <1>0, <1>6, <1>17, <3>3
      <4> QED BY <1>14, <3>4, <4>1, <4>2
    <3>6. i = k
      BY <1>0, <3>5
    <3>7. m = x
      BY <1>1, <1>6, <1>17, <3>3, <3>4, <3>6
    <3> QED BY <3>1, <3>6, <3>7
  <2> QED BY <1>15, <1>16, <2>1 DEF OnlyAt
\* The scheme's place in both, when there's one.
<1>20. ASSUME q # 0
       PROVE  \E l : /\ q \in 1..n /\ l \in 1..Len(w[q]) /\ s = Past(w, q - 1) + l /\ w[q][l] = "://"
                     /\ q \in G => l = Len(w[q])
                     /\ q \notin G => l = y
  <2>1. q \in 1..n
    BY <1>0, <1>20
  <2>2. CASE q \in G
    <3>1. Len(w[q]) \in Nat \ {0} /\ Past(w, q) = Past(w, q - 1) + Len(w[q])
      BY <1>2, <1>11, <2>1, <2>2
    <3>2. Len(w[q]) \in 1..Len(w[q])
      BY <3>1
    <3> QED BY <1>11, <2>1, <2>2, <3>1, <3>2 DEF SchemeIn
  <2>3. CASE q \notin G
    <3>1. w[q] = v[q]
      BY <1>8, <2>1, <2>3
    <3> QED BY <1>10, <1>20, <2>1, <2>3, <3>1 DEF SchemeIn, SchemeAt
  <2> QED BY <2>2, <2>3
<1>21. s \in 0..a - 1 /\ (s # 0 => text[s] = "://")
  <2>1. CASE q = 0
    <3>1. s = 0
      BY <1>12, <2>1 DEF SchemeIn, SchemeAt
    <3>2. a \in Nat \ {0}
      BY <1>14, <1>15
    <3> QED BY <3>1, <3>2
  <2>2. CASE q # 0
    <3>1. PICK l : /\ q \in 1..n /\ l \in 1..Len(w[q]) /\ s = Past(w, q - 1) + l /\ w[q][l] = "://"
                   /\ q \in G => l = Len(w[q])
                   /\ q \notin G => l = y
      BY <1>20, <2>2
    <3>2. text[s] = "://" /\ s \in Nat
      BY <1>0, <1>4, <1>6, <1>18, <3>1
    <3>3. ASSUME q < k PROVE s < a
      <4>1. x \in 1..Len(w[k])
        BY <1>6
      <4>2. Past(w, q - 1) + l < Past(w, k - 1) + x
        BY <1>0, <1>18, <3>1, <3>3, <4>1
      <4> QED BY <3>1, <4>2
    <3>4. ASSUME q = k PROVE s < a
      <4>1. l < x
        BY <1>10, <1>12, <2>2, <3>1, <3>4
      <4>2. Past(w, k - 1) \in Nat /\ l \in Nat
        BY <1>2, <1>6, <1>18, <3>1
      <4> QED BY <1>14, <3>1, <3>4, <4>1, <4>2
    <3>5. q < k \/ q = k
      BY <1>0
    <3> HIDE DEF s, a
    <3> QED BY <1>14, <3>2, <3>3, <3>4, <3>5
  <2> QED BY <2>1, <2>2
<1>22. ASSUME NEW p \in s + 1..a - 1 PROVE text[p] \notin Ends
  <2>0. p \in 1..Len(text) /\ s < p /\ p < a /\ p \in Nat /\ s \in Nat
    <3> HIDE DEF s, a
    <3> QED BY <1>14, <1>15, <1>21, <1>22
  <2>a. PICK i \in 1..n : \E m \in 1..Len(w[i]) : p = Past(w, i - 1) + m
    BY <1>5, <2>0
  <2>1. PICK m \in 1..Len(w[i]) : p = Past(w, i - 1) + m
    BY <2>a
  <2>2. text[p] = w[i][m]
    BY <1>4, <2>1
  <2>3. ~(k < i)
    <3>1. x \in 1..Len(w[k])
      BY <1>6
    <3>2. k < i => Past(w, k - 1) + x < Past(w, i - 1) + m
      BY <1>0, <1>18, <2>1, <3>1
    <3> HIDE DEF s
    <3> QED BY <1>14, <2>0, <2>1, <3>2
  <2>4. i = k => m < x
    BY <1>2, <1>6, <1>14, <1>18, <2>0, <2>1
  <2>5. ~(i < q) /\ (q # 0 /\ i = q => q \notin G /\ m > y)
    <3>1. CASE q = 0
      BY <3>1
    <3>2. ASSUME q # 0 PROVE ~(i < q) /\ (i = q => q \notin G /\ m > y)
      <4>1. PICK l : /\ q \in 1..n /\ l \in 1..Len(w[q]) /\ s = Past(w, q - 1) + l /\ w[q][l] = "://"
                     /\ q \in G => l = Len(w[q])
                     /\ q \notin G => l = y
        BY <1>20, <3>2
      <4>2. ~(i < q)
        <5>1. i < q => Past(w, i - 1) + m < Past(w, q - 1) + l
          BY <1>18, <2>1, <4>1
        <5> HIDE DEF s
        <5> QED BY <2>0, <2>1, <4>1, <5>1
      <4>3. ASSUME i = q PROVE q \notin G /\ m > y
        <5>0. l \in Nat /\ m \in Nat
          BY <1>18, <2>1, <4>1
        <5>a. Past(w, q - 1) \in Nat
          <6>1. q - 1 \in 0..n
            BY <1>0, <4>1
          <6> QED BY <1>2, <6>1
        <5>1. m > l /\ l \in Nat /\ m \in Nat
          <6> HIDE DEF s
          <6> QED BY <2>0, <2>1, <4>1, <4>3, <5>0, <5>a
        <5>2. m <= Len(w[q]) /\ Len(w[q]) \in Nat
          BY <1>2, <2>1, <4>3
        <5>3. q \notin G
          BY <4>1, <5>1, <5>2
        <5> QED BY <4>1, <5>1, <5>3
      <4> QED BY <4>2, <4>3
    <3> QED BY <1>0, <3>1, <3>2
  <2>6. CASE i \in G
    <3>1. i # k /\ i # q
      BY <1>12, <2>5, <2>6
    <3>2. q < i /\ i < k
      BY <1>0, <2>3, <2>5, <3>1
    <3> QED BY <1>9, <2>1, <2>2, <2>6, <3>2
  <2>7. CASE i \notin G
    <3>1. w[i] = v[i] /\ m \in 1..Len(v[i])
      BY <1>8, <2>1, <2>7
    <3> DEFINE r == Past(v, i - 1) + m
    <3>2. FlattenSeq(v)[r] = w[i][m] /\ r \in Nat
      BY <1>3, <1>17, <3>1
    <3>3. r < b
      <4>1. CASE i < k
        BY <1>0, <1>6, <1>17, <3>1, <4>1
      <4>2. CASE i = k
        BY <1>1, <1>6, <1>14, <1>17, <2>4, <3>1, <4>2
      <4> HIDE DEF r, b
      <4> QED BY <1>0, <2>3, <4>1, <4>2
    <3>4. t < r /\ t \in Nat
      <4>1. CASE q = 0
        <5>1. t = 0
          BY <4>1 DEF SchemeAt
        <5>2. Past(v, i - 1) \in Nat /\ m \in Nat \ {0}
          <6>1. i - 1 \in 0..n /\ Len(v[i]) \in Nat
            BY <1>0, <1>1, <2>1
          <6> QED BY <1>1, <3>1, <6>1
        <5> QED BY <5>1, <5>2
      <4>2. CASE q # 0
        <5>1. q \in 1..n /\ y \in 1..Len(v[q]) /\ t = Past(v, q - 1) + y
          BY <1>0, <1>10, <4>2 DEF SchemeAt
        <5>2. CASE q < i
          BY <1>17, <3>1, <5>1, <5>2
        <5>3. CASE q = i
          <6>1. m > y
            BY <2>5, <4>2, <5>3
          <6>2. Past(v, q - 1) \in Nat /\ y \in Nat /\ m \in Nat
            <7>1. q - 1 \in 0..n
              BY <1>0, <5>1
            <7> QED BY <1>1, <1>17, <3>1, <5>1, <7>1
          <6> QED BY <5>1, <5>3, <6>1, <6>2
        <5> HIDE DEF r, t
        <5> QED BY <1>0, <2>5, <5>1, <5>2, <5>3
      <4> QED BY <4>1, <4>2
    <3>5. r \in t + 1..b - 1
      <4> HIDE DEF r, t, b
      <4> QED BY <1>14, <3>2, <3>3, <3>4
    <3> QED BY <1>13, <2>2, <3>2, <3>5
  <2> QED BY <2>6, <2>7
<1> QED
  BY <1>19, <1>21, <1>22 DEF text

\* Where the user information of a text that has one is.
LEMMA AuthorityIs ==
  ASSUME NEW W, NEW text \in Seq(W), HasInformation(text)
  PROVE  LET s == AuthorityStart(text)
             a == Max(Ats(text))
         IN  /\ s \in 1..a /\ a \in 1..Len(text) /\ text[a] = "@"
             /\ \A p \in s..a : text[p] \notin Ends
             /\ \A p \in Ats(text) : p <= a
             /\ s # 1 => text[s - 1] = "://" /\ \A p \in 1..s - 1 : text[p] \notin {"/", "@"}
<1> DEFINE s == AuthorityStart(text)
           a == Max(Ats(text))
           end == AuthorityEnd(text)
           scheme == First(text, {"://"}, 1)
           stop == First(text, {"/", "@"}, 1)
<1>0. Len(text) \in Nat
  OBVIOUS
<1>1. scheme \in 1..Len(text) + 1 /\ (scheme <= Len(text) => text[scheme] = "://")
  BY FirstFits
<1>2. stop \in 1..Len(text) + 1 /\ \A p \in 1..Len(text) : text[p] \in {"/", "@"} => stop <= p
  BY FirstFits
<1>3. s = IF scheme <= Len(text) /\ stop > scheme THEN scheme + 1 ELSE 1
  BY DEF AuthorityStart
<1> HIDE DEF scheme, stop
<1>4. s \in Nat \ {0}
  BY <1>0, <1>1, <1>3
<1> HIDE DEF s
<1>5. end = First(text, Ends, s)
  BY DEF AuthorityEnd, s
<1>6. end \in 1..Len(text) + 1 /\ \A p \in s..Len(text) : text[p] \in Ends => end <= p
  BY <1>4, <1>5, FirstFits
<1> HIDE DEF end
<1>7. Ats(text) = {i \in s..end - 1 : text[i] = "@"}
  BY DEF Ats, s, end
<1>8. Ats(text) \in SUBSET (0..Len(text)) /\ Ats(text) # {}
  <2>1. s..end - 1 \subseteq 0..Len(text)
    BY <1>0, <1>4, <1>6
  <2> QED BY <1>7, <2>1 DEF HasInformation
<1>9. a \in Ats(text) /\ \A p \in Ats(text) : p <= a
  BY <1>0, <1>8, MaxIs
<1> HIDE DEF a
<1>10. a \in s..end - 1 /\ text[a] = "@"
  BY <1>7, <1>9
<1>11. s \in 1..a /\ a \in 1..Len(text)
  BY <1>0, <1>4, <1>6, <1>10
<1>12. \A p \in s..a : text[p] \notin Ends
  BY <1>0, <1>4, <1>6, <1>10
<1>13. ASSUME s # 1 PROVE text[s - 1] = "://" /\ \A p \in 1..s - 1 : text[p] \notin {"/", "@"}
  <2>1. scheme <= Len(text) /\ stop > scheme /\ s - 1 = scheme /\ scheme \in Nat
    BY <1>0, <1>1, <1>3, <1>13
  <2>2. \A p \in 1..s - 1 : p \in 1..Len(text) /\ p < stop
    BY <1>0, <1>2, <2>1
  <2>3. \A p \in 1..s - 1 : text[p] \notin {"/", "@"}
    BY <1>0, <1>2, <2>2
  <2> QED BY <1>1, <2>1, <2>3
<1> QED
  BY <1>9, <1>10, <1>11, <1>12, <1>13 DEF s, a

LEMMA WrittenIs ==
  ASSUME NEW S, NEW v \in Seq(Seq(S)), HasInformation(FlattenSeq(v)), ~HoldsUnreadAt(FlattenSeq(v)),
         \A p \in DOMAIN Information(FlattenSeq(v)) : Information(FlattenSeq(v))[p] # "@"
  PROVE  \E k \in 1..Len(v) : \E x \in 1..Len(v[k]) : \E q \in 0..k : \E y \in Nat :
           /\ WrittenAs(v, q, y, k, x)
           /\ AuthorityStart(FlattenSeq(v)) = SchemeAt(v, q, y) + 1
           /\ Max(Ats(FlattenSeq(v))) = Past(v, k - 1) + x
<1> DEFINE text == FlattenSeq(v)
           s == AuthorityStart(text)
           a == Max(Ats(text))
           n == Len(v)
<1>0. text \in Seq(S) /\ Len(text) \in Nat /\ n \in Nat
  BY FlattenedIsText
<1>1. /\ s \in 1..a /\ a \in 1..Len(text) /\ text[a] = "@"
      /\ \A p \in s..a : text[p] \notin Ends
      /\ \A p \in Ats(text) : p <= a
      /\ s # 1 => text[s - 1] = "://" /\ \A p \in 1..s - 1 : text[p] \notin {"/", "@"}
  <2> HIDE DEF text
  <2> QED BY <1>0, AuthorityIs DEF text
<1>2. Information(text) = SubSeq(text, s, a - 1)
  BY DEF Information
<1>3. Ats(text) = {i \in s..AuthorityEnd(text) - 1 : text[i] = "@"}
  BY DEF Ats
<1>4. \A p \in AuthorityEnd(text)..Len(text) : text[p] # "@"
  BY DEF HoldsUnreadAt
<1>5. AuthorityEnd(text) \in 1..Len(text) + 1
  <2>1. s \in Nat \ {0}
    BY <1>0, <1>1
  <2> HIDE DEF s, text
  <2> QED BY <1>0, <2>1, FirstFits DEF AuthorityEnd, s
<1>a. \A p \in DOMAIN Information(text) : Information(text)[p] # "@"
  OBVIOUS
<1>6. \A i \in 1..n : \A m \in 1..Len(v[i]) : text[Past(v, i - 1) + m] = v[i][m]
  BY Stands
<1>7. \A p \in 1..Len(text) : \E i \in 1..n : \E m \in 1..Len(v[i]) : p = Past(v, i - 1) + m
  BY WhichPiece
<1>8. /\ \A i \in 0..n : Past(v, i) \in Nat
      /\ \A i \in 1..n : Past(v, i) = Past(v, i - 1) + Len(v[i]) /\ Len(v[i]) \in Nat
      /\ \A i \in 0..n : \A j \in i..n : Past(v, i) <= Past(v, j)
  BY PastIs
<1> HIDE DEF text, s, a, n
<1>9. OnlyAt(text, a)
  <2>1. ASSUME NEW p \in 1..Len(text), text[p] = "@", p # a PROVE FALSE
    <3>1. CASE p < s
      <4>1. s # 1 /\ p \in 1..s - 1
        BY <1>0, <1>1, <3>1
      <4> QED BY <1>1, <2>1, <4>1
    <3>2. CASE p >= s /\ p < a
      <4> DEFINE i == p - s + 1
      <4>1. i \in 1..(a - 1) - s + 1 /\ s + i - 1 = p
        BY <1>0, <1>1, <3>2
      <4>2. s \in 1..Len(text) /\ a - 1 \in 1..Len(text) /\ s <= a - 1
        BY <1>0, <1>1, <3>2
      <4> HIDE DEF i
      <4>3. Len(SubSeq(text, s, a - 1)) = (a - 1) - s + 1
        BY <1>0, <4>2
      <4>4. SubSeq(text, s, a - 1)[i] = text[p]
        BY <1>0, <4>1, <4>2
      <4>5. i \in DOMAIN SubSeq(text, s, a - 1)
        BY <1>0, <4>1, <4>2, <4>3
      <4> QED BY <1>2, <1>a, <2>1, <4>4, <4>5
    <3>3. CASE p > a
      <4>1. p \in s..AuthorityEnd(text) - 1
        BY <1>0, <1>1, <1>4, <1>5, <2>1, <3>3
      <4>2. p <= a
        BY <1>1, <1>3, <2>1, <4>1
      <4> QED BY <1>0, <1>1, <3>3, <4>2
    <3> QED BY <1>0, <1>1, <2>1, <3>1, <3>2, <3>3
  <2> QED BY <1>1, <2>1 DEF OnlyAt
<1>10. PICK k \in 1..n : \E x \in 1..Len(v[k]) : a = Past(v, k - 1) + x
  BY <1>1, <1>7
<1>11. PICK x \in 1..Len(v[k]) : a = Past(v, k - 1) + x
  BY <1>10
<1>12. \A p \in s..a - 1 : text[p] \notin Ends
  BY <1>0, <1>1
<1>13. CASE s = 1
  <2>1. SchemeAt(v, 0, 0) = 0 /\ 0 \in 0..k /\ 0 \in Nat
    BY <1>0 DEF SchemeAt
  <2>2. WrittenAs(v, 0, 0, k, x)
    BY <1>9, <1>11, <1>12, <1>13, <2>1 DEF WrittenAs, text, n
  <2>3. s = SchemeAt(v, 0, 0) + 1
    BY <1>13, <2>1
  <2> QED BY <1>11, <2>1, <2>2, <2>3 DEF n, s, a, text
<1>14. CASE s # 1
  <2>1. s - 1 \in 1..Len(text) /\ s - 1 < a /\ text[s - 1] = "://"
    BY <1>0, <1>1, <1>14
  <2>2. PICK q \in 1..n : \E y \in 1..Len(v[q]) : s - 1 = Past(v, q - 1) + y
    BY <1>7, <2>1
  <2>3. PICK y \in 1..Len(v[q]) : s - 1 = Past(v, q - 1) + y
    BY <2>2
  <2>4. v[q][y] = "://"
    BY <1>6, <2>1, <2>3
  <2>5. q - 1 \in 0..n /\ k - 1 \in 0..n /\ k \in 0..n
    BY <1>0
  <2>6. Past(v, q - 1) \in Nat /\ Past(v, k - 1) \in Nat /\ Past(v, k) = Past(v, k - 1) + Len(v[k])
        /\ Len(v[q]) \in Nat /\ Len(v[k]) \in Nat
    BY <1>8, <2>5
  <2>7. x \in Nat /\ x <= Len(v[k]) /\ y \in Nat \ {0}
    BY <2>6
  <2>8. ~(k < q)
    <3>1. ASSUME k < q PROVE Past(v, k) <= Past(v, q - 1)
      BY <1>0, <1>8, <2>5, <3>1
    <3> QED BY <1>0, <1>1, <1>11, <2>1, <2>3, <2>6, <2>7, <3>1
  <2>9. q \in 0..k /\ q # 0
    BY <1>0, <2>8
  <2>10. q = k => y < x
    BY <1>11, <2>1, <2>3, <2>6, <2>7
  <2>11. SchemeAt(v, q, y) = s - 1
    BY <2>3, <2>9 DEF SchemeAt
  <2>12. s = SchemeAt(v, q, y) + 1
    BY <1>1, <2>11
  <2>13. WrittenAs(v, q, y, k, x)
    BY <1>9, <1>11, <1>12, <2>4, <2>9, <2>10, <2>12 DEF WrittenAs, text, n
  <2> QED BY <1>11, <2>7, <2>9, <2>12, <2>13 DEF n, s, a, text
<1> QED
  BY <1>13, <1>14

\* A text's scheme ends at s, or it has none and s is 0, and its user
\* information ends at the @ at a.  Nothing before the :// is a delimiter.
ReadAt(text, s, a) ==
  /\ s \in 0..a - 1 /\ a \in 1..Len(text)
  /\ AuthorityStart(text) = s + 1 /\ HasInformation(text) /\ Max(Ats(text)) = a
  /\ \A p \in 1..s - 1 : text[p] \notin Delimiters

\* What such pieces come to is read where they're written.
LEMMA FilledIsRead ==
  ASSUME NEW S, NEW v \in Seq(Seq(S)), NEW W, NEW w \in Seq(Seq(W)), NEW G, NEW q, NEW y, NEW k, NEW x,
         WrittenAs(v, q, y, k, x), FilledAs(v, w, G, q, k),
         HoldsUnreadAt(FlattenSeq(w)) =>
           \A p \in 1..SchemeIn(w, G, q, y) - 1 : FlattenSeq(w)[p] \notin Delimiters
  PROVE  ReadAt(FlattenSeq(w), SchemeIn(w, G, q, y), Past(w, k - 1) + x)
<1> DEFINE text == FlattenSeq(w)
           s == SchemeIn(w, G, q, y)
           a == Past(w, k - 1) + x
<1>0. text \in Seq(W) /\ Len(text) \in Nat
  BY FlattenedIsText
<1>1. /\ OnlyAt(text, a) /\ s \in 0..a - 1 /\ (s # 0 => text[s] = "://")
      /\ \A p \in s + 1..a - 1 : text[p] \notin Ends
  BY FilledReads
<1>2. HoldsUnreadAt(text) => \A p \in 1..s - 1 : text[p] \notin Delimiters
  OBVIOUS
<1> HIDE DEF text, s, a
<1>3. a \in 1..Len(text) /\ text[a] = "@"
  BY <1>1 DEF OnlyAt
<1>4. AuthorityStart(text) = s + 1 /\ \A p \in 1..s - 1 : text[p] \notin Delimiters
  <2>1. CASE s = 0
    <3>1. \A p \in 1..a - 1 : text[p] \notin Ends
      BY <1>1, <2>1
    <3>2. AuthorityStart(text) = 1
      BY <1>0, <1>3, <3>1, StartsAtOnce
    <3> QED BY <2>1, <3>2
  <2>2. CASE s # 0
    <3>1. s \in 1..a - 1 /\ s \in 1..Len(text) /\ text[s] = "://"
      BY <1>0, <1>1, <1>3, <2>2
    <3>2. \A p \in 1..s - 1 : text[p] \notin Delimiters
      BY <1>0, <1>1, <1>2, <3>1, NothingBefore
    <3> QED BY <1>0, <3>1, <3>2, StartsAfterScheme
  <2> QED BY <2>1, <2>2
<1>5. s \in 0..Len(text) /\ a \in s + 1..Len(text)
  BY <1>0, <1>1, <1>3
<1>6. HasInformation(text) /\ Max(Ats(text)) = a
  BY <1>0, <1>1, <1>4, <1>5, ReadTo
<1> QED
  BY <1>1, <1>3, <1>4, <1>6 DEF ReadAt, text, s, a

\* The pieces of the user information are those between the scheme's and the
\* one with the @.
LEMMA Between ==
  ASSUME NEW S, NEW v \in Seq(Seq(S)), NEW q, NEW y, NEW k, NEW x, WrittenAs(v, q, y, k, x),
         NEW i \in 1..Len(v)
  PROVE  (SchemeAt(v, q, y) + 1 <= 1 + Past(v, i - 1) /\ 1 + Past(v, i) <= Past(v, k - 1) + x)
           <=> (q < i /\ i < k)
<1> DEFINE n == Len(v)
<1>0. n \in Nat /\ k \in 1..n /\ q \in 0..k /\ x \in 1..Len(v[k]) /\ i \in 1..n
  BY DEF WrittenAs
<1>1. /\ \A j \in 0..n : Past(v, j) \in Nat
      /\ \A j \in 1..n : Past(v, j) = Past(v, j - 1) + Len(v[j]) /\ Len(v[j]) \in Nat
      /\ \A j \in 0..n : \A l \in j..n : Past(v, j) <= Past(v, l)
  BY PastIs
<1> HIDE DEF n
<1>2. k - 1 \in 0..n /\ k \in 0..n /\ i - 1 \in 0..n /\ i \in 0..n
  BY <1>0
<1>3. /\ Past(v, i - 1) \in Nat /\ Past(v, i) \in Nat /\ Past(v, i - 1) <= Past(v, i)
      /\ Past(v, k - 1) \in Nat /\ Past(v, k) = Past(v, k - 1) + Len(v[k]) /\ Len(v[k]) \in Nat
  <2>1. i \in i - 1..n
    BY <1>0
  <2> QED BY <1>0, <1>1, <1>2, <2>1
<1>4. x \in Nat \ {0} /\ x <= Len(v[k])
  BY <1>0, <1>3
<1>5. k <= i => Past(v, k) <= Past(v, i)
  <2>1. k <= i => i \in k..n
    BY <1>0
  <2> QED BY <1>1, <1>2, <2>1
<1>6. i < k => Past(v, i) <= Past(v, k - 1)
  <2>1. i < k => k - 1 \in i..n
    BY <1>0
  <2> QED BY <1>1, <1>2, <2>1
<1>7. CASE q = 0
  <2>1. SchemeAt(v, q, y) = 0 /\ q < i
    BY <1>0, <1>7 DEF SchemeAt
  <2> DEFINE b == Past(v, i - 1)
             e == Past(v, i)
             a == Past(v, k - 1) + x
  <2>2. b \in Nat /\ e \in Nat /\ a \in Nat
    BY <1>3, <1>4
  <2>3. i < k => 1 + e <= a
    BY <1>3, <1>4, <1>6
  <2>4. k <= i => ~(1 + e <= a)
    BY <1>3, <1>4, <1>5
  <2> HIDE DEF b, e, a
  <2>5. (0 + 1 <= 1 + b /\ 1 + e <= a) <=> i < k
    BY <1>0, <2>2, <2>3, <2>4
  <2> QED BY <2>1, <2>5 DEF b, e, a
<1>8. CASE q # 0
  <2>1. q \in 1..n /\ y \in 1..Len(v[q]) /\ SchemeAt(v, q, y) = Past(v, q - 1) + y
    BY <1>0, <1>8 DEF WrittenAs, SchemeAt
  <2>2. q - 1 \in 0..n /\ q \in 0..n
    BY <2>1, <1>0
  <2>3. Past(v, q - 1) \in Nat /\ Past(v, q) = Past(v, q - 1) + Len(v[q]) /\ Len(v[q]) \in Nat /\ Past(v, q) \in Nat
    BY <1>1, <2>1, <2>2
  <2>4. y \in Nat \ {0} /\ y <= Len(v[q])
    BY <2>1, <2>3
  <2>5. q < i => Past(v, q) <= Past(v, i - 1)
    <3>1. q < i => i - 1 \in q..n
      BY <1>0, <2>1
    <3> QED BY <1>1, <2>2, <3>1
  <2>6. i <= q => Past(v, i - 1) <= Past(v, q - 1)
    <3>1. i <= q => q - 1 \in i - 1..n
      BY <1>0, <2>1
    <3> QED BY <1>1, <1>2, <3>1
  <2> DEFINE s == SchemeAt(v, q, y)
             b == Past(v, i - 1)
             e == Past(v, i)
             a == Past(v, k - 1) + x
  <2>a. s \in Nat /\ s <= Past(v, q) /\ Past(v, q - 1) < s
    BY <2>1, <2>3, <2>4
  <2>b. (q < i => Past(v, q) <= b) /\ (i <= q => b <= Past(v, q - 1)) /\ b \in Nat
    BY <1>3, <2>5, <2>6
  <2>c. (q < i => s <= b) /\ (i <= q => b < s)
    <3> HIDE DEF s, b
    <3> QED BY <2>a, <2>b, <2>3
  <2>d. s \in Nat /\ b \in Nat
    BY <2>a, <2>b
  <2>7. q < i => s + 1 <= 1 + b
    <3> HIDE DEF s, b
    <3> QED BY <2>c, <2>d
  <2>8. i <= q => ~(s + 1 <= 1 + b)
    <3> HIDE DEF s, b
    <3> QED BY <2>c, <2>d
  <2>9. i < k => 1 + e <= a
    BY <1>3, <1>4, <1>6
  <2>10. k <= i => ~(1 + e <= a)
    BY <1>3, <1>4, <1>5
  <2> HIDE DEF s, b, e, a
  <2>11. (s + 1 <= 1 + b /\ 1 + e <= a) <=> (q < i /\ i < k)
    BY <1>0, <2>1, <2>7, <2>8, <2>9, <2>10
  <2> QED BY <2>11 DEF s, b, e, a
<1> QED
  BY <1>7, <1>8

\* And their values stand in the user information as it's read; the values
\* given elsewhere stand apart from it.
LEMMA StandsBetween ==
  ASSUME NEW S, NEW v \in Seq(Seq(S)), NEW W, NEW w \in Seq(Seq(W)), NEW G, NEW q, NEW y, NEW k, NEW x,
         WrittenAs(v, q, y, k, x), FilledAs(v, w, G, q, k), NEW i \in G
  PROVE  LET s == SchemeIn(w, G, q, y)
             a == Past(w, k - 1) + x
         IN  /\ q < i /\ i < k => s + 1 <= 1 + Past(w, i - 1) /\ 1 + Past(w, i) <= a
             /\ ~(q < i /\ i < k) => 1 + Past(w, i) <= s + 1 \/ 1 + Past(w, i - 1) > a
<1> DEFINE n == Len(v)
           s == SchemeIn(w, G, q, y)
           a == Past(w, k - 1) + x
           b == Past(w, i - 1)
           e == Past(w, i)
<1>0. /\ n \in Nat /\ k \in 1..n /\ q \in 0..k /\ x \in 1..Len(w[k]) /\ i \in 1..n /\ i # k /\ Len(w) = n
      /\ q # 0 /\ q \notin G => y \in 1..Len(w[q])
  <2>1. n \in Nat /\ k \in 1..n /\ q \in 0..k /\ x \in 1..Len(v[k])
    BY DEF WrittenAs
  <2>2. Len(w) = n /\ k \notin G /\ G \subseteq 1..n /\ w[k] = v[k] /\ i \in 1..n /\ i # k
    BY <2>1 DEF FilledAs
  <2>3. ASSUME q # 0, q \notin G PROVE y \in 1..Len(w[q])
    <3>1. q \in 1..n /\ y \in 1..Len(v[q])
      BY <2>1, <2>3 DEF WrittenAs
    <3>2. w[q] = v[q]
      BY <2>3, <3>1 DEF FilledAs
    <3> QED BY <3>1, <3>2
  <2> QED BY <2>1, <2>2, <2>3
<1>1. /\ \A j \in 0..n : Past(w, j) \in Nat
      /\ \A j \in 1..n : Past(w, j) = Past(w, j - 1) + Len(w[j]) /\ Len(w[j]) \in Nat
      /\ \A j \in 0..n : \A l \in j..n : Past(w, j) <= Past(w, l)
  <2>1. /\ \A j \in 0..Len(w) : Past(w, j) \in Nat
        /\ \A j \in 1..Len(w) : Past(w, j) = Past(w, j - 1) + Len(w[j]) /\ Len(w[j]) \in Nat
        /\ \A j \in 0..Len(w) : \A l \in j..Len(w) : Past(w, j) <= Past(w, l)
    BY PastIs
  <2> HIDE DEF n
  <2> QED BY <1>0, <2>1
<1> HIDE DEF n
<1>2. k - 1 \in 0..n /\ k \in 0..n /\ i - 1 \in 0..n /\ i \in 0..n
  BY <1>0
<1>3. /\ Past(w, i - 1) \in Nat /\ Past(w, i) \in Nat /\ Past(w, i - 1) <= Past(w, i)
      /\ Past(w, k - 1) \in Nat /\ Past(w, k) = Past(w, k - 1) + Len(w[k]) /\ Len(w[k]) \in Nat
  <2>1. i \in i - 1..n
    BY <1>0
  <2> QED BY <1>0, <1>1, <1>2, <2>1
<1>4. x \in Nat \ {0} /\ x <= Len(w[k])
  BY <1>0, <1>3
<1>5. k < i => Past(w, k) <= Past(w, i - 1)
  <2>1. k < i => i - 1 \in k..n
    BY <1>0
  <2> QED BY <1>1, <1>2, <2>1
<1>6. i < k => Past(w, i) <= Past(w, k - 1)
  <2>1. i < k => k - 1 \in i..n
    BY <1>0
  <2> QED BY <1>1, <1>2, <2>1
<1>7. k < i => 1 + b > a
  BY <1>3, <1>4, <1>5
<1>8. i < k => 1 + e <= a
  BY <1>3, <1>4, <1>6
<1>9. (q < i => s <= b) /\ (i <= q => e <= s) /\ s \in Nat
  <2>1. CASE q = 0
    <3>1. 0 \notin G
      BY <1>0 DEF FilledAs
    <3>2. s = 0
      BY <2>1, <3>1 DEF SchemeIn, SchemeAt
    <3> QED BY <1>0, <1>3, <2>1, <3>2
  <2>2. ASSUME q # 0 PROVE (q < i => s <= b) /\ (i <= q => e <= s) /\ s \in Nat
    <3>1. q \in 1..n /\ q - 1 \in 0..n /\ q \in 0..n
      BY <1>0, <2>2
    <3>2. Past(w, q - 1) \in Nat /\ Past(w, q) = Past(w, q - 1) + Len(w[q]) /\ Len(w[q]) \in Nat /\ Past(w, q) \in Nat
      BY <1>1, <3>1
    <3>3. q < i => Past(w, q) <= Past(w, i - 1)
      <4>1. q < i => i - 1 \in q..n
        BY <1>0, <3>1
      <4> QED BY <1>1, <3>1, <4>1
    <3>4. i <= q => Past(w, i) <= Past(w, q)
      <4>1. i <= q => q \in i..n
        BY <1>0, <3>1
      <4> QED BY <1>1, <1>2, <4>1
    <3>5. i < q => Past(w, i) <= Past(w, q - 1)
      <4>1. i < q => q - 1 \in i..n
        BY <1>0, <3>1
      <4> QED BY <1>1, <1>2, <4>1
    <3>6. CASE q \in G
      <4>1. s = Past(w, q)
        BY <3>6 DEF SchemeIn
      <4> QED BY <3>2, <3>3, <3>4, <4>1
    <3>7. CASE q \notin G
      <4>1. s = Past(w, q - 1) + y /\ y \in 1..Len(w[q])
        BY <1>0, <2>2, <3>7 DEF SchemeIn, SchemeAt
      <4>2. i # q
        BY <3>7
      <4>3. y \in Nat /\ y <= Len(w[q])
        BY <3>2, <4>1
      <4>4. s \in Nat /\ s <= Past(w, q) /\ Past(w, q - 1) <= s
        BY <3>2, <4>1, <4>3
      <4>5. i <= q => i < q
        BY <1>0, <4>2
      <4> HIDE DEF s
      <4> QED BY <1>3, <3>2, <3>3, <3>5, <4>4, <4>5
    <3> QED BY <3>6, <3>7
  <2> QED BY <2>1, <2>2
<1>10. b \in Nat /\ e \in Nat /\ a \in Nat
  BY <1>3, <1>4
<1> HIDE DEF s, a, b, e
<1>11. q < i \/ i <= q
  BY <1>0
<1>12. i < k \/ k < i
  BY <1>0
<1>13. q < i /\ i < k => s + 1 <= 1 + b /\ 1 + e <= a
  BY <1>8, <1>9, <1>10
<1>14. ~(q < i /\ i < k) => 1 + e <= s + 1 \/ 1 + b > a
  BY <1>7, <1>9, <1>10, <1>11, <1>12
<1> QED
  BY <1>13, <1>14 DEF s, a, b, e

-----------------------------------------------------------------------------
(* What the checks let pass is filled so.                                   *)

\* What a written text's pieces stand as, and what they come to.
Stood(written) == [i \in DOMAIN written |-> StandsAs(written[i])]
Came(variables, written) == [i \in DOMAIN written |-> CameTo(variables, written[i])]
Gives(variables, written) == {i \in DOMAIN written : GivesValue(variables, written[i])}

\* The texts of a written text's pieces, and that a piece's two are the same
\* where no value is given for it.
Pieces(variables, written, v, w) ==
  /\ Len(written) \in Nat /\ DOMAIN written = 1..Len(written) /\ written \in Seq(Range(written))
  /\ v = Stood(written) /\ v \in Seq(Seq(DOMAIN Size \union NamesOf(written))) /\ Len(v) = Len(written)
  /\ w = Came(variables, written) /\ w \in Seq(Seq(DOMAIN Size)) /\ Len(w) = Len(written)
  /\ \A i \in 1..Len(written) :
       /\ v[i] = StandsAs(written[i]) /\ w[i] = CameTo(variables, written[i])
       /\ GivesValue(variables, written[i]) =>
            /\ written[i].name \in NamesOf(written) /\ variables[written[i].name] \in Texts
            /\ w[i] = variables[written[i].name]
       /\ ~GivesValue(variables, written[i]) => w[i] = v[i]

LEMMA PiecesAre ==
  ASSUME NEW c, Lasting(c), NEW key \in DOMAIN c.written, key # ApiKey
  PROVE  Pieces(c.variables, c.written[key], Stood(c.written[key]), Came(c.variables, c.written[key]))
<1> DEFINE written == c.written[key]
           names == NamesOf(written)
           S == DOMAIN Size \union names
           v == Stood(written)
           w == Came(c.variables, written)
<1>1. /\ written \in Seq(Range(written))
      /\ \A piece \in Range(written) : piece.default \in Texts \union {NoDefault}
      /\ \A name \in DOMAIN c.variables : name # NoName /\ c.variables[name] \in Texts
  BY ConfigsAssumption DEF Lasting
<1>2. ~Lacks(c.variables, written)
  BY DEF Lasting, CantFill
<1>3. names = {piece.name : piece \in Range(written)} \ {NoName}
  BY DEF NamesOf
<1> HIDE DEF written, names
<1>4. Len(written) \in Nat /\ DOMAIN written = 1..Len(written)
  BY <1>1
<1>5. ASSUME NEW i \in 1..Len(written)
      PROVE  /\ written[i] \in Range(written)
             /\ written[i].default = NoDefault => GivesValue(c.variables, written[i])
             /\ GivesValue(c.variables, written[i]) =>
                  written[i].name \in names /\ c.variables[written[i].name] \in Texts
  <2>1. written[i] \in Range(written)
    BY <1>4 DEF Range
  <2>2. written[i].default = NoDefault => GivesValue(c.variables, written[i])
    BY <1>2, <2>1 DEF Lacks, GivesValue
  <2>3. GivesValue(c.variables, written[i]) => written[i].name \in DOMAIN c.variables
    BY DEF GivesValue
  <2> QED BY <1>1, <1>3, <2>1, <2>2, <2>3
<1>6. ASSUME NEW i \in 1..Len(written)
      PROVE  StandsAs(written[i]) \in Seq(S) /\ CameTo(c.variables, written[i]) \in Seq(DOMAIN Size)
  <2>1. CASE written[i].default = NoDefault
    <3>1. written[i].name \in S
      BY <1>5, <2>1
    <3> HIDE DEF S
    <3>2. <<written[i].name>> \in Seq(S)
      BY <3>1
    <3> QED BY <1>5, <2>1, <3>2 DEF StandsAs, CameTo, Texts
  <2>2. CASE written[i].default # NoDefault
    <3>1. written[i].default \in Seq(DOMAIN Size)
      BY <1>1, <1>5, <2>2 DEF Texts
    <3>2. written[i].default \in Seq(S)
      <4>1. DOMAIN Size \subseteq S
        OBVIOUS
      <4> HIDE DEF S
      <4> QED BY <3>1, <4>1
    <3> QED BY <1>5, <2>2, <3>1, <3>2 DEF StandsAs, CameTo, Texts
  <2> QED BY <2>1, <2>2
<1>7. DOMAIN v = 1..Len(written) /\ DOMAIN w = 1..Len(written)
  BY <1>4 DEF Stood, Came
<1>8. \A i \in 1..Len(written) : v[i] = StandsAs(written[i]) /\ w[i] = CameTo(c.variables, written[i])
  BY <1>4 DEF Stood, Came
<1>9. v \in [1..Len(written) -> Seq(S)]
  <2> HIDE DEF S
  <2> QED BY <1>4, <1>6 DEF Stood
<1>10. w \in [1..Len(written) -> Seq(DOMAIN Size)]
  BY <1>4, <1>6 DEF Came
<1> HIDE DEF v, w, S
<1>11. v \in Seq(Seq(S)) /\ w \in Seq(Seq(DOMAIN Size))
  BY <1>4, <1>9, <1>10
<1>12. Len(v) = Len(written) /\ Len(w) = Len(written)
  BY <1>4, <1>7, <1>11
<1>13. ASSUME NEW i \in 1..Len(written)
       PROVE  /\ GivesValue(c.variables, written[i]) => w[i] = c.variables[written[i].name]
              /\ ~GivesValue(c.variables, written[i]) => w[i] = v[i]
  BY <1>5, <1>8 DEF CameTo, StandsAs
<1> QED
  BY <1>1, <1>4, <1>5, <1>8, <1>11, <1>12, <1>13 DEF Pieces, v, w, S, names, written

\* Where a piece is said to stand is where its text does.
LEMMA PlaceIs ==
  ASSUME NEW variables, NEW written, NEW v, NEW w, Pieces(variables, written, v, w),
         NEW i \in 1..Len(written)
  PROVE  PlaceOf(written, i) = [start |-> 1 + Past(v, i - 1), end |-> 1 + Past(v, i)]
<1> DEFINE first == SubSeq(written, 1, i - 1)
<1>1. /\ Len(written) \in Nat /\ DOMAIN written = 1..Len(written) /\ written \in Seq(Range(written))
      /\ v \in Seq(Seq(DOMAIN Size \union NamesOf(written))) /\ Len(v) = Len(written)
      /\ v = Stood(written) /\ v[i] = StandsAs(written[i])
  BY DEF Pieces
<1>2. DOMAIN first = 1..i - 1 /\ \A j \in 1..i - 1 : first[j] = written[j]
  BY <1>1
<1>3. Stood(first) = SubSeq(v, 1, i - 1)
  <2>1. Stood(first) = [j \in 1..i - 1 |-> StandsAs(written[j])]
    BY <1>2 DEF Stood
  <2>2. DOMAIN SubSeq(v, 1, i - 1) = 1..i - 1 /\ \A j \in 1..i - 1 : SubSeq(v, 1, i - 1)[j] = v[j]
    BY <1>1
  <2>3. \A j \in 1..i - 1 : v[j] = StandsAs(written[j])
    BY <1>1 DEF Pieces
  <2>4. SubSeq(v, 1, i - 1) = [j \in 1..i - 1 |-> SubSeq(v, 1, i - 1)[j]]
    BY <1>1
  <2> QED BY <2>1, <2>2, <2>3, <2>4
<1>4. Masked(first) = Upto(v, i - 1)
  BY <1>3 DEF Masked, Stood, Upto
<1>5. Past(v, i) = Past(v, i - 1) + Len(v[i]) /\ Past(v, i - 1) \in Nat /\ Len(v[i]) \in Nat
  <2>1. i - 1 \in 0..Len(v) /\ i \in 1..Len(v)
    BY <1>1
  <2> QED BY <1>1, <2>1, PastIs
<1> HIDE DEF first
<1> QED
  BY <1>1, <1>4, <1>5 DEF PlaceOf, Past, first

LEMMA FilledPlaceIs ==
  ASSUME NEW written, NEW v, NEW w, Pieces(config.variables, written, v, w), NEW i \in 1..Len(written)
  PROVE  FilledPlace(written, i) = [start |-> 1 + Past(w, i - 1), end |-> 1 + Past(w, i)]
<1> DEFINE first == SubSeq(written, 1, i - 1)
           x == config.variables
<1>1. /\ Len(written) \in Nat /\ DOMAIN written = 1..Len(written) /\ written \in Seq(Range(written))
      /\ w \in Seq(Seq(DOMAIN Size)) /\ Len(w) = Len(written)
      /\ w = Came(x, written) /\ w[i] = CameTo(x, written[i])
  BY DEF Pieces
<1>2. DOMAIN first = 1..i - 1 /\ \A j \in 1..i - 1 : first[j] = written[j]
  BY <1>1
<1>3. Came(x, first) = SubSeq(w, 1, i - 1)
  <2>1. Came(x, first) = [j \in 1..i - 1 |-> CameTo(x, written[j])]
    BY <1>2 DEF Came
  <2>2. DOMAIN SubSeq(w, 1, i - 1) = 1..i - 1 /\ \A j \in 1..i - 1 : SubSeq(w, 1, i - 1)[j] = w[j]
    BY <1>1
  <2>3. \A j \in 1..i - 1 : w[j] = CameTo(x, written[j])
    BY <1>1 DEF Pieces
  <2>4. SubSeq(w, 1, i - 1) = [j \in 1..i - 1 |-> SubSeq(w, 1, i - 1)[j]]
    BY <1>1
  <2> QED BY <2>1, <2>2, <2>3, <2>4
<1>4. Text(x, first) = Upto(w, i - 1)
  BY <1>3 DEF Text, Came, Upto
<1>5. Past(w, i) = Past(w, i - 1) + Len(w[i]) /\ Past(w, i - 1) \in Nat /\ Len(w[i]) \in Nat
  <2>1. i - 1 \in 0..Len(w) /\ i \in 1..Len(w)
    BY <1>1
  <2> QED BY <1>1, <2>1, PastIs
<1> HIDE DEF first
<1>6. FilledPlace(written, i) =
        [start |-> 1 + Len(Text(x, first)), end |-> 1 + Len(Text(x, first)) + Len(CameTo(x, written[i]))]
  BY DEF FilledPlace, first
<1>7. Past(w, i - 1) = Len(Text(x, first))
  BY <1>4 DEF Past
<1> QED
  <2>1. Len(CameTo(x, written[i])) = Len(w[i])
    BY <1>1
  <2>2. 1 + Past(w, i) = 1 + Past(w, i - 1) + Len(w[i])
    BY <1>5
  <2> QED BY <1>6, <1>7, <2>1, <2>2

\* A URL's pieces, when the config's checks let it pass.
LEMMA UrlPasses ==
  ASSUME Derivation, Accepted, NEW key \in Filled("url")
  PROVE  LET written == config.written[key]
             v == Stood(written)
             w == Came(config.variables, written)
             url == Value(config, key)
         IN  /\ Lasting(config) /\ key \in DOMAIN config.written /\ key # ApiKey
             /\ Pieces(config.variables, written, v, w)
             /\ Masked(written) = FlattenSeq(v) /\ url = FlattenSeq(w) /\ url \in Texts
             /\ ~HoldsUnreadAt(url)
             /\ NamesOf(written) = {} => v = w
             /\ NamesOf(written) # {} =>
                  /\ ~HoldsUnreadAt(Masked(written)) /\ ~InformationWrittenOut(written)
                  /\ HasInformation(url) => HasInformation(Masked(written))
                  /\ ~Unreadable(config.variables, written)
             /\ NamesOf(written) \intersect Delimiters = {}
<1> DEFINE written == config.written[key]
           v == Stood(written)
           w == Came(config.variables, written)
           url == Value(config, key)
<1>1. Lasting(config) /\ ~UrlHidesACredential(config)
  BY DEF Derivation, Accepted, Lasting, PrepareRefuses
<1>2. /\ key \in DOMAIN config.written /\ key \notin DOMAIN config.code /\ key.field = "url"
      /\ key \in At(config, "url") /\ IsStated(config, key)
  BY DEF Filled, Entries, At
<1>3. key # ApiKey
  <2>1. ApiKey.field # "url"
    BY DEF ApiKey
  <2> QED BY <1>2, <2>1
<1>4. Pieces(config.variables, written, v, w)
  BY <1>1, <1>2, <1>3, PiecesAre
<1>5. Masked(written) = FlattenSeq(v) /\ url = FlattenSeq(w)
  BY <1>2 DEF Masked, Stood, Value, Text, Came
<1>6. url \in Texts
  BY <1>1, <1>2, ValueIsText DEF Keys
<1>7. Names(config, key) = NamesOf(written) /\ IsWritten(config, key)
  BY <1>2 DEF Names, IsWritten
<1>8. NamesOf(written) \intersect Delimiters = {}
  BY <1>1, <1>2, ConfigsAssumption DEF Lasting
<1> HIDE DEF written, v, w, url
<1>9. CASE NamesOf(written) = {}
  <2>1. ~HoldsUnreadAt(Masked(<<WrittenOut(url)>>))
    BY <1>1, <1>2, <1>7, <1>9 DEF UrlHidesACredential, url
  <2>2. Masked(<<WrittenOut(url)>>) = url
    <3> DEFINE one == <<WrittenOut(url)>>
    <3>1. url # NoDefault
      BY <1>6, ConfigsAssumption
    <3>2. DOMAIN one = 1..1 /\ one[1] = WrittenOut(url)
      OBVIOUS
    <3>3. [i \in DOMAIN one |-> StandsAs(one[i])] = <<url>>
      <4>1. StandsAs(one[1]) = url
        BY <3>1, <3>2 DEF StandsAs, WrittenOut
      <4> HIDE DEF one
      <4>2. [i \in DOMAIN one |-> StandsAs(one[i])] = [i \in 1..1 |-> url]
        BY <3>2, <4>1
      <4> QED BY <4>2
    <3>4. FlattenSeq(<<url>>) = url
      <4>1. <<url>> \in Seq(Seq(DOMAIN Size)) /\ Len(<<url>>) = 1 /\ <<url>>[1] = url
        BY <1>6 DEF Texts
      <4>2. Upto(<<url>>, 1) = Upto(<<url>>, 0) \o url /\ Upto(<<url>>, 0) = <<>>
            /\ Upto(<<url>>, 1) = FlattenSeq(<<url>>)
        <5>1. 1 \in 1..Len(<<url>>) /\ 1 - 1 = 0
          BY <4>1
        <5> DEFINE only == <<url>>
        <5>2. only \in Seq(Seq(DOMAIN Size)) /\ 1 \in 1..Len(only) /\ Len(only) = 1 /\ only[1] = url
          BY <4>1, <5>1
        <5> HIDE DEF only
        <5>3. /\ Upto(only, 0) = <<>> /\ Upto(only, Len(only)) = FlattenSeq(only)
              /\ \A i \in 1..Len(only) : Upto(only, i) = Upto(only, i - 1) \o only[i]
          BY <5>2, UptoIs, Zenon
        <5> QED BY <5>1, <5>2, <5>3 DEF only
      <4>3. <<>> \o url = url
        BY <1>6 DEF Texts
      <4> QED BY <4>2, <4>3
    <3> QED BY <3>3, <3>4 DEF Masked
  <2>3. v = w
    <3>1. /\ Len(v) = Len(written) /\ Len(w) = Len(written) /\ v \in Seq(Seq(DOMAIN Size \union NamesOf(written)))
          /\ w \in Seq(Seq(DOMAIN Size))
      BY <1>4 DEF Pieces
    <3>2. \A i \in 1..Len(written) : w[i] = v[i]
      BY <1>4, <1>9 DEF Pieces
    <3>3. DOMAIN v = 1..Len(written) /\ DOMAIN w = 1..Len(written)
      BY <3>1
    <3>4. v = [i \in DOMAIN v |-> v[i]] /\ w = [i \in DOMAIN w |-> w[i]]
      BY DEF Stood, Came, v, w
    <3> QED BY <3>2, <3>3, <3>4
  <2> QED
    BY <1>1, <1>2, <1>3, <1>4, <1>5, <1>6, <1>8, <1>9, <2>1, <2>2, <2>3 DEF written, v, w, url
<1>10. CASE NamesOf(written) # {}
  <2>1. /\ ~HoldsUnreadAt(Masked(written)) /\ ~InformationWrittenOut(written)
        /\ HasInformation(url) => HasInformation(Masked(written))
        /\ ~Unreadable(config.variables, written) /\ ~HoldsUnreadAt(url)
    BY <1>1, <1>2, <1>7, <1>10 DEF UrlHidesACredential, url, written
  <2> QED
    BY <1>1, <1>2, <1>3, <1>4, <1>5, <1>6, <1>8, <1>10, <2>1 DEF written, v, w, url
<1> QED
  BY <1>9, <1>10

\* Where a URL's text keeps its own @ and scheme, its pieces are filled as one
\* that's read where it's written.
LEMMA UrlIsFilled ==
  ASSUME Derivation, Accepted, NEW key \in Filled("url"), NamesOf(config.written[key]) # {},
         HasInformation(Masked(config.written[key])), KeepsDelimiters(config.written[key])
  PROVE  LET written == config.written[key]
             v == Stood(written)
             w == Came(config.variables, written)
             G == Gives(config.variables, written)
         IN  \E k \in 1..Len(v) : \E x \in 1..Len(v[k]) : \E q \in 0..k : \E y \in Nat :
               /\ WrittenAs(v, q, y, k, x) /\ FilledAs(v, w, G, q, k)
               /\ \A i \in 1..Len(v) : InInformation(written, i) <=> q < i /\ i < k
<1> DEFINE written == config.written[key]
           x0 == config.variables
           v == Stood(written)
           w == Came(x0, written)
           G == Gives(x0, written)
           M == Masked(written)
<1>1. /\ Pieces(x0, written, v, w) /\ M = FlattenSeq(v)
      /\ ~HoldsUnreadAt(M) /\ ~InformationWrittenOut(written) /\ ~Unreadable(x0, written)
      /\ NamesOf(written) \intersect Delimiters = {}
  BY UrlPasses, Zenon
<1>2. HasInformation(M) /\ KeepsDelimiters(written)
  OBVIOUS
<1> DEFINE S == DOMAIN Size \union NamesOf(written)
<1> HIDE DEF written, v, w, G, M, S
<1>3. /\ Len(written) \in Nat /\ DOMAIN written = 1..Len(written)
      /\ v \in Seq(Seq(S)) /\ w \in Seq(Seq(DOMAIN Size))
      /\ Len(v) = Len(written) /\ Len(w) = Len(written)
  BY <1>1 DEF Pieces, S
<1>4. ASSUME NEW i \in 1..Len(written)
      PROVE  /\ v[i] = StandsAs(written[i])
             /\ i \in G <=> GivesValue(x0, written[i])
             /\ i \in G => /\ written[i].name \in NamesOf(written) /\ x0[written[i].name] \in Texts
                           /\ w[i] = x0[written[i].name]
             /\ i \notin G => w[i] = v[i]
  BY <1>1, <1>3 DEF Pieces, Gives, G
<1>5. \A p \in DOMAIN Information(M) : Information(M)[p] # "@"
  <2> DEFINE information == Information(M)
             others == {i \in DOMAIN information : information[i] \notin NamesOf(written)}
  <2>1. ~\E i \in others : information[i] # ":" \/ others # {i}
    BY <1>1, <1>2 DEF InformationWrittenOut, M
  <2> SUFFICES ASSUME NEW p \in DOMAIN information, information[p] = "@" PROVE FALSE
    OBVIOUS
  <2>2. "@" \notin NamesOf(written)
    BY <1>1 DEF Delimiters
  <2>3. p \in others
    BY <2>2
  <2> HIDE DEF others
  <2> QED BY <2>1, <2>3
<1>6. PICK k \in 1..Len(v) : \E x \in 1..Len(v[k]) : \E q \in 0..k : \E y \in Nat :
        /\ WrittenAs(v, q, y, k, x)
        /\ AuthorityStart(M) = SchemeAt(v, q, y) + 1
        /\ Max(Ats(M)) = Past(v, k - 1) + x
  BY <1>1, <1>2, <1>3, <1>5, WrittenIs
<1>7. PICK x \in 1..Len(v[k]) : \E q \in 0..k : \E y \in Nat :
        /\ WrittenAs(v, q, y, k, x)
        /\ AuthorityStart(M) = SchemeAt(v, q, y) + 1
        /\ Max(Ats(M)) = Past(v, k - 1) + x
  BY <1>6
<1>8. PICK q \in 0..k : \E y \in Nat :
        /\ WrittenAs(v, q, y, k, x)
        /\ AuthorityStart(M) = SchemeAt(v, q, y) + 1
        /\ Max(Ats(M)) = Past(v, k - 1) + x
  BY <1>7
<1>9. PICK y \in Nat :
        /\ WrittenAs(v, q, y, k, x)
        /\ AuthorityStart(M) = SchemeAt(v, q, y) + 1
        /\ Max(Ats(M)) = Past(v, k - 1) + x
  BY <1>8
<1>10. ASSUME NEW i \in 1..Len(v) PROVE InInformation(written, i) <=> q < i /\ i < k
  <2>1. (SchemeAt(v, q, y) + 1 <= 1 + Past(v, i - 1) /\ 1 + Past(v, i) <= Past(v, k - 1) + x)
          <=> (q < i /\ i < k)
    BY <1>3, <1>9, Between
  <2>2. PlaceOf(written, i) = [start |-> 1 + Past(v, i - 1), end |-> 1 + Past(v, i)]
    BY <1>1, <1>3, PlaceIs
  <2>3. PlaceOf(written, i).start = 1 + Past(v, i - 1) /\ PlaceOf(written, i).end = 1 + Past(v, i)
    BY <2>2
  <2> QED BY <1>2, <1>9, <2>1, <2>3 DEF InInformation, M
\* What a piece that's given a value stands as.
<1>11. ASSUME NEW i \in G, i \in 1..Len(v), written[i].default = NoDefault, NEW m \in 1..Len(v[i])
       PROVE  v[i][m] \notin Delimiters
  <2>1. v[i] = <<written[i].name>> /\ written[i].name \notin Delimiters
    BY <1>1, <1>3, <1>4, <1>11 DEF StandsAs
  <2>2. Len(v[i]) = 1 /\ v[i][1] = written[i].name
    BY <2>1
  <2> QED BY <2>1, <2>2
<1>12. ASSUME NEW i \in G, i \in 1..Len(v), written[i].default # NoDefault, NEW m \in 1..Len(v[i])
       PROVE  v[i][m] \in Range(written[i].default)
  <2>1. v[i] = written[i].default /\ v[i] \in Seq(S)
    <3>1. v[i] = StandsAs(written[i])
      BY <1>3, <1>4, <1>12
    <3>2. v[i] \in Seq(S)
      BY <1>3, <1>12
    <3> QED BY <1>12, <3>1, <3>2 DEF StandsAs
  <2>2. m \in DOMAIN v[i]
    BY <2>1
  <2> QED BY <2>1, <2>2 DEF Range
<1>13. ASSUME NEW i \in G, i \in 1..Len(v), written[i].default # NoDefault
       PROVE  /\ "@" \notin Range(written[i].default)
              /\ "://" \in Range(written[i].default) /\ PlaceOf(written, i).start < AuthorityStart(M) =>
                   w[i] # <<>> /\ w[i][Len(w[i])] = "://"
  BY <1>2, <1>3, <1>4, <1>13 DEF KeepsDelimiters, M
<1>14. v[k][x] = "@"
  <2>1. FlattenSeq(v)[Past(v, k - 1) + x] = v[k][x]
    BY <1>3, Stands
  <2> QED BY <1>9, <2>1 DEF WrittenAs, OnlyAt
<1>15. k \notin G
  <2> SUFFICES ASSUME k \in G PROVE FALSE
    OBVIOUS
  <2>1. CASE written[k].default = NoDefault
    BY <1>11, <1>14, <2>1 DEF Delimiters
  <2>2. CASE written[k].default # NoDefault
    BY <1>12, <1>13, <1>14, <2>2
  <2> QED BY <2>1, <2>2
<1>16. G \subseteq 1..Len(v)
  BY <1>3 DEF G, Gives
<1>17. ASSUME NEW i \in G, NEW m \in 1..Len(w[i])
       PROVE  w[i][m] # "@" /\ (q < i /\ i < k => w[i][m] \notin Ends)
  <2>1. i \in 1..Len(v) /\ i \in DOMAIN written /\ GivesValue(x0, written[i]) /\ w[i] = x0[written[i].name]
    BY <1>3, <1>4, <1>16
  <2>2. w[i][m] \in Range(x0[written[i].name])
    <3>1. w[i] \in Seq(DOMAIN Size)
      BY <1>3, <2>1
    <3>2. m \in DOMAIN w[i]
      BY <3>1
    <3> QED BY <2>1, <3>2 DEF Range
  <2>3. "@" \notin Range(x0[written[i].name])
    BY <1>1, <2>1 DEF Unreadable
  <2>4. InInformation(written, i) => Range(x0[written[i].name]) \intersect Delimiters = {}
    BY <1>1, <2>1 DEF Unreadable
  <2>5. InInformation(written, i) <=> q < i /\ i < k
    BY <1>10, <2>1
  <2> QED BY <2>2, <2>3, <2>4, <2>5 DEF Delimiters, Ends
<1>18. ASSUME q \in G PROVE Len(w[q]) # 0 /\ w[q][Len(w[q])] = "://"
  <2>1. q \in 1..Len(v) /\ q # 0
    BY <1>3, <1>16, <1>18
  <2>2. y \in 1..Len(v[q]) /\ v[q][y] = "://"
    BY <1>9, <2>1 DEF WrittenAs
  <2>3. written[q].default # NoDefault
    BY <1>11, <1>18, <2>1, <2>2 DEF Delimiters
  <2>4. "://" \in Range(written[q].default)
    BY <1>12, <1>18, <2>1, <2>2, <2>3
  <2>5. PlaceOf(written, q).start < AuthorityStart(M)
    <3>1. PlaceOf(written, q) = [start |-> 1 + Past(v, q - 1), end |-> 1 + Past(v, q)]
      BY <1>1, <1>3, <2>1, PlaceIs
    <3>2. AuthorityStart(M) = Past(v, q - 1) + y + 1
      BY <1>9, <2>1 DEF SchemeAt
    <3>3. Past(v, q - 1) \in Nat /\ y \in Nat \ {0}
      <4>1. q - 1 \in 0..Len(v)
        BY <1>3, <2>1
      <4>2. Len(v[q]) \in Nat
        BY <1>3, <2>1, PastIs
      <4>3. Past(v, q - 1) \in Nat
        BY <1>3, <4>1, PastIs
      <4> QED BY <2>2, <4>2, <4>3
    <3>4. PlaceOf(written, q).start = 1 + Past(v, q - 1)
      BY <3>1
    <3> QED BY <3>2, <3>3, <3>4
  <2>6. w[q] # <<>> /\ w[q][Len(w[q])] = "://"
    BY <1>13, <1>18, <2>1, <2>3, <2>4, <2>5
  <2>7. w[q] \in Seq(DOMAIN Size)
    BY <1>3, <2>1
  <2> QED BY <2>6, <2>7
<1>19. FilledAs(v, w, G, q, k)
  BY <1>3, <1>4, <1>15, <1>16, <1>17, <1>18 DEF FilledAs
<1>20. /\ WrittenAs(v, q, y, k, x) /\ FilledAs(v, w, G, q, k)
       /\ \A i \in 1..Len(v) : InInformation(written, i) <=> q < i /\ i < k
  BY <1>9, <1>10, <1>19
<1> QED
  BY <1>20 DEF v, w, G, written

\* A value given within the user information as it's written is part of it as
\* it's read, and one given elsewhere is apart from it.
LEMMA ValuesStandAsWritten ==
  ASSUME Derivation, Accepted, NEW key \in Filled("url"), KeepsDelimiters(config.written[key]),
         HasInformation(Masked(config.written[key]))
  PROVE  LET written == config.written[key]
             url == Value(config, key)
         IN  /\ HasInformation(url)
             /\ \A i \in DOMAIN written : GivesValue(config.variables, written[i]) =>
                  IF InInformation(written, i) THEN IsWithin(url, FilledPlace(written, i))
                  ELSE IsApart(url, FilledPlace(written, i))
<1> DEFINE written == config.written[key]
           x0 == config.variables
           v == Stood(written)
           w == Came(x0, written)
           G == Gives(x0, written)
           url == Value(config, key)
<1>1. /\ Pieces(x0, written, v, w) /\ Masked(written) = FlattenSeq(v) /\ url = FlattenSeq(w)
      /\ ~HoldsUnreadAt(url) /\ (NamesOf(written) = {} => v = w)
  BY UrlPasses, Zenon
<1>2. HasInformation(Masked(written)) /\ KeepsDelimiters(written)
  OBVIOUS
<1>3. NamesOf(written) # {} =>
        \E k \in 1..Len(v) : \E x \in 1..Len(v[k]) : \E q \in 0..k : \E y \in Nat :
               /\ WrittenAs(v, q, y, k, x) /\ FilledAs(v, w, G, q, k)
               /\ \A i \in 1..Len(v) : InInformation(written, i) <=> q < i /\ i < k
  BY UrlIsFilled, Zenon
<1>4. ASSUME NEW i \in 1..Len(written)
      PROVE  FilledPlace(written, i) = [start |-> 1 + Past(w, i - 1), end |-> 1 + Past(w, i)]
  BY <1>1, FilledPlaceIs
<1> DEFINE S == DOMAIN Size \union NamesOf(written)
<1> HIDE DEF written, v, w, G, url, S
<1>5. /\ Len(written) \in Nat /\ DOMAIN written = 1..Len(written)
      /\ v \in Seq(Seq(S)) /\ w \in Seq(Seq(DOMAIN Size))
      /\ Len(v) = Len(written) /\ Len(w) = Len(written)
  BY <1>1 DEF Pieces, S
<1>6. CASE NamesOf(written) = {}
  <2>1. \A i \in DOMAIN written : ~GivesValue(x0, written[i])
    BY <1>1, <1>5, <1>6 DEF Pieces
  <2> QED BY <1>1, <1>2, <1>6, <2>1 DEF written, url
<1>7. CASE NamesOf(written) # {}
  <2>1. PICK k \in 1..Len(v) : \E x \in 1..Len(v[k]) : \E q \in 0..k : \E y \in Nat :
               /\ WrittenAs(v, q, y, k, x) /\ FilledAs(v, w, G, q, k)
               /\ \A i \in 1..Len(v) : InInformation(written, i) <=> q < i /\ i < k
    BY <1>3, <1>7
  <2>2. PICK x \in 1..Len(v[k]) : \E q \in 0..k : \E y \in Nat :
               /\ WrittenAs(v, q, y, k, x) /\ FilledAs(v, w, G, q, k)
               /\ \A i \in 1..Len(v) : InInformation(written, i) <=> q < i /\ i < k
    BY <2>1
  <2>3. PICK q \in 0..k : \E y \in Nat :
               /\ WrittenAs(v, q, y, k, x) /\ FilledAs(v, w, G, q, k)
               /\ \A i \in 1..Len(v) : InInformation(written, i) <=> q < i /\ i < k
    BY <2>2
  <2>4. PICK y \in Nat :
               /\ WrittenAs(v, q, y, k, x) /\ FilledAs(v, w, G, q, k)
               /\ \A i \in 1..Len(v) : InInformation(written, i) <=> q < i /\ i < k
    BY <2>3
  <2> DEFINE s == SchemeIn(w, G, q, y)
             a == Past(w, k - 1) + x
  <2>5. /\ s \in 0..a - 1 /\ a \in 1..Len(url)
        /\ AuthorityStart(url) = s + 1 /\ HasInformation(url) /\ Max(Ats(url)) = a
    <3>1. v \in Seq(Seq(S)) /\ w \in Seq(Seq(DOMAIN Size))
      BY <1>5
    <3>2. WrittenAs(v, q, y, k, x) /\ FilledAs(v, w, G, q, k)
      BY <2>4
    <3>3. ~HoldsUnreadAt(FlattenSeq(w))
      BY <1>1
    <3>4. ReadAt(FlattenSeq(w), SchemeIn(w, G, q, y), Past(w, k - 1) + x)
      BY <3>1, <3>2, <3>3, FilledIsRead
    <3> QED BY <1>1, <3>4 DEF ReadAt
  <2>6. ASSUME NEW i \in DOMAIN written, GivesValue(x0, written[i])
        PROVE  IF InInformation(written, i) THEN IsWithin(url, FilledPlace(written, i))
               ELSE IsApart(url, FilledPlace(written, i))
    <3>1. i \in G /\ i \in 1..Len(v)
      BY <1>5, <2>6 DEF G, Gives
    <3>2. /\ q < i /\ i < k => s + 1 <= 1 + Past(w, i - 1) /\ 1 + Past(w, i) <= a
          /\ ~(q < i /\ i < k) => 1 + Past(w, i) <= s + 1 \/ 1 + Past(w, i - 1) > a
      BY <1>5, <2>4, <3>1, StandsBetween
    <3>3. FilledPlace(written, i).start = 1 + Past(w, i - 1) /\ FilledPlace(written, i).end = 1 + Past(w, i)
      BY <1>4, <1>5
    <3>4. InInformation(written, i) <=> q < i /\ i < k
      BY <2>4, <3>1
    <3> HIDE DEF s, a
    <3>5. CASE InInformation(written, i)
      BY <2>5, <3>2, <3>3, <3>4, <3>5 DEF IsWithin
    <3>6. CASE ~InInformation(written, i)
      BY <2>5, <3>2, <3>3, <3>4, <3>6 DEF IsApart
    <3> QED BY <3>5, <3>6
  <2> QED BY <2>5, <2>6 DEF written, url
<1> QED
  BY <1>6, <1>7

\* Whatever the variables hold, a URL that's accepted has no @ that isn't
\* read, no user information its text has none of, and its user information
\* where it's written (prepare's url_hides_a_credential, url.rs unreadable).
THEOREM AlwaysReadAsWritten == Spec => []ReadAsWritten
<1>1. Derivation => ReadAsWritten
  <2> SUFFICES ASSUME Derivation, Accepted, NEW key \in Filled("url")
               PROVE  LET written == config.written[key]
                          url == Value(config, key)
                      IN  /\ ~HoldsUnreadAt(url)
                          /\ HasInformation(url) => HasInformation(Masked(written))
                          /\ KeepsDelimiters(written) =>
                               /\ HasInformation(Masked(written)) => HasInformation(url)
                               /\ \A i \in DOMAIN written : GivesValue(config.variables, written[i]) =>
                                    IF InInformation(written, i) THEN IsWithin(url, FilledPlace(written, i))
                                    ELSE IsApart(url, FilledPlace(written, i))
    BY DEF ReadAsWritten
  <2> DEFINE written == config.written[key]
             url == Value(config, key)
             v == Stood(written)
             w == Came(config.variables, written)
  <2>1. /\ ~HoldsUnreadAt(url) /\ Masked(written) = FlattenSeq(v) /\ url = FlattenSeq(w)
        /\ NamesOf(written) = {} => v = w
        /\ NamesOf(written) # {} => (HasInformation(url) => HasInformation(Masked(written)))
    BY UrlPasses, Zenon
  <2> HIDE DEF written, url, v, w
  <2>2. HasInformation(url) => HasInformation(Masked(written))
    BY <2>1
  <2>3. CASE HasInformation(Masked(written))
    BY <2>1, <2>3, ValuesStandAsWritten DEF written, url
  <2>4. CASE ~HasInformation(Masked(written))
    <3>1. \A i : ~InInformation(written, i) /\ IsApart(url, FilledPlace(written, i))
      BY <2>2, <2>4 DEF InInformation, IsApart
    <3> QED BY <2>1, <2>4, <2>2, <3>1 DEF written, url
  <2> QED BY <2>3, <2>4
<1> QED
  BY <1>1, DerivationHolds, PTL

-----------------------------------------------------------------------------
(* And what's shown of it holds none of what credentials' variables hold.   *)

\* Texts that begin the same stand the same.
LEMMA SameStart ==
  ASSUME NEW S, NEW w \in Seq(Seq(S)), NEW o \in Seq(Seq(S)), Len(w) = Len(o), NEW q \in 0..Len(w),
         \A i \in 1..q : w[i] = o[i]
  PROVE  /\ \A j \in 0..q : Past(w, j) = Past(o, j)
         /\ Past(w, q) <= Len(FlattenSeq(w)) /\ Past(w, q) <= Len(FlattenSeq(o))
         /\ \A p \in 1..Past(w, q) : FlattenSeq(w)[p] = FlattenSeq(o)[p]
<1>0. Len(w) \in Nat /\ Len(o) = Len(w) /\ Len(w) \in q..Len(w) /\ Len(o) \in q..Len(o) /\ q \in 0..Len(o)
  OBVIOUS
<1>1. ASSUME NEW j \in 0..q PROVE Upto(w, j) = Upto(o, j)
  <2>1. SubSeq(w, 1, j) = SubSeq(o, 1, j)
    <3>1. SubSeq(w, 1, j) \in Seq(Seq(S)) /\ SubSeq(o, 1, j) \in Seq(Seq(S))
          /\ Len(SubSeq(w, 1, j)) = j /\ Len(SubSeq(o, 1, j)) = j
      OBVIOUS
    <3>2. \A i \in 1..j : SubSeq(w, 1, j)[i] = SubSeq(o, 1, j)[i]
      OBVIOUS
    <3> QED BY <3>1, <3>2, SeqEqual
  <2> QED BY <2>1 DEF Upto
<1>2. \A j \in 0..q : Past(w, j) = Past(o, j)
  BY <1>1 DEF Past
<1>3. /\ Past(w, q) <= Past(w, Len(w)) /\ \A p \in 1..Past(w, q) : Upto(w, Len(w))[p] = Upto(w, q)[p]
  BY <1>0, UptoGrows
<1>4. /\ Past(o, q) <= Past(o, Len(o)) /\ \A p \in 1..Past(o, q) : Upto(o, Len(o))[p] = Upto(o, q)[p]
  BY <1>0, UptoGrows
<1>5. Upto(w, Len(w)) = FlattenSeq(w) /\ Upto(o, Len(o)) = FlattenSeq(o)
  BY UptoIs
<1>6. Upto(w, q) = Upto(o, q) /\ Past(w, q) = Past(o, q)
  BY <1>1, <1>2
<1>7. Past(w, q) <= Len(FlattenSeq(w)) /\ Past(w, q) <= Len(FlattenSeq(o))
  BY <1>3, <1>4, <1>5, <1>6 DEF Past
<1>8. \A p \in 1..Past(w, q) : FlattenSeq(w)[p] = FlattenSeq(o)[p]
  BY <1>3, <1>4, <1>5, <1>6
<1> QED
  BY <1>2, <1>7, <1>8

\* What follows d in a text is what follows e in the other.
SameAfter(text, d, other, e) ==
  /\ d \in Nat /\ e \in Nat /\ Len(text) - d = Len(other) - e
  /\ \A p \in d + 1..Len(text) : text[p] = other[(p - d) + e]

\* Texts that end the same do so wherever that is.
LEMMA SameEnd ==
  ASSUME NEW S, NEW w \in Seq(Seq(S)), NEW o \in Seq(Seq(S)), Len(w) = Len(o), NEW k \in 1..Len(w),
         \A i \in k..Len(w) : w[i] = o[i]
  PROVE  SameAfter(FlattenSeq(w), Past(w, k - 1), FlattenSeq(o), Past(o, k - 1))
<1> DEFINE n == Len(w)
           d == Past(w, k - 1)
           e == Past(o, k - 1)
           T == {j \in 0..n : j < k - 1 \/ Past(w, j) - d = Past(o, j) - e}
<1>0. n \in Nat /\ k \in 1..n /\ Len(o) = n /\ k - 1 \in 0..n
  OBVIOUS
<1>1. /\ Past(w, n) = Len(FlattenSeq(w)) /\ \A i \in 0..n : Past(w, i) \in Nat
      /\ \A i \in 1..n : Past(w, i) = Past(w, i - 1) + Len(w[i]) /\ Len(w[i]) \in Nat
      /\ \A i \in 0..n : \A j \in i..n : Past(w, i) <= Past(w, j)
  BY PastIs
<1>2. /\ Past(o, n) = Len(FlattenSeq(o)) /\ \A i \in 0..n : Past(o, i) \in Nat
      /\ \A i \in 1..n : Past(o, i) = Past(o, i - 1) + Len(o[i]) /\ Len(o[i]) \in Nat
  <2> HIDE DEF n
  <2>1. /\ Past(o, Len(o)) = Len(FlattenSeq(o)) /\ \A i \in 0..Len(o) : Past(o, i) \in Nat
        /\ \A i \in 1..Len(o) : Past(o, i) = Past(o, i - 1) + Len(o[i]) /\ Len(o[i]) \in Nat
    BY PastIs
  <2> QED BY <1>0, <2>1
<1>3. \A i \in k..n : w[i] = o[i]
  OBVIOUS
<1>4. \A p \in 1..Len(FlattenSeq(w)) : \E i \in 1..n : \E m \in 1..Len(w[i]) : p = Past(w, i - 1) + m
  BY WhichPiece
<1>5. \A i \in 1..n : \A m \in 1..Len(w[i]) : FlattenSeq(w)[Past(w, i - 1) + m] = w[i][m]
  BY Stands
<1>6. \A i \in 1..n : \A m \in 1..Len(o[i]) : FlattenSeq(o)[Past(o, i - 1) + m] = o[i][m]
  <2> HIDE DEF n
  <2>1. \A i \in 1..Len(o) : \A m \in 1..Len(o[i]) : FlattenSeq(o)[Past(o, i - 1) + m] = o[i][m]
    BY Stands
  <2> QED BY <1>0, <2>1
<1> HIDE DEF n, d, e
<1>7. d \in Nat /\ e \in Nat /\ d = Past(w, k - 1) /\ e = Past(o, k - 1)
  BY <1>0, <1>1, <1>2 DEF d, e
<1>8. 0 \in T
  BY <1>0, <1>7
<1>9. ASSUME NEW j \in 1..n, j - 1 \in T PROVE j \in T
  <2>1. CASE j < k - 1
    BY <1>0, <2>1
  <2>2. CASE j = k - 1
    BY <1>0, <1>7, <2>2
  <2>3. ASSUME j > k - 1 PROVE Past(w, j) - d = Past(o, j) - e
    <3>1. j \in k..n /\ j - 1 \in 0..n /\ ~(j - 1 < k - 1)
      BY <1>0, <2>3
    <3>2. Past(w, j - 1) - d = Past(o, j - 1) - e
      BY <1>9, <3>1
    <3>3. Len(w[j]) = Len(o[j])
      BY <1>3, <3>1
    <3>4. Past(w, j - 1) \in Nat /\ Past(o, j - 1) \in Nat /\ Len(w[j]) \in Nat
          /\ Past(w, j) = Past(w, j - 1) + Len(w[j]) /\ Past(o, j) = Past(o, j - 1) + Len(w[j])
      BY <1>1, <1>2, <3>1, <3>3
    <3>5. Past(w, j) - d = (Past(w, j - 1) - d) + Len(w[j])
      <4> DEFINE before == Past(w, j - 1)
                 long == Len(w[j])
      <4>1. before \in Nat /\ long \in Nat /\ d \in Nat /\ Past(w, j) = before + long
        BY <1>7, <3>4
      <4> HIDE DEF before, long
      <4>2. (before + long) - d = (before - d) + long
        BY <4>1
      <4> QED BY <4>1, <4>2 DEF before, long
    <3>6. Past(o, j) - e = (Past(o, j - 1) - e) + Len(w[j])
      <4> DEFINE before == Past(o, j - 1)
                 long == Len(w[j])
      <4>1. before \in Nat /\ long \in Nat /\ e \in Nat /\ Past(o, j) = before + long
        BY <1>7, <3>4
      <4> HIDE DEF before, long
      <4>2. (before + long) - e = (before - e) + long
        BY <4>1
      <4> QED BY <4>1, <4>2 DEF before, long
    <3> QED BY <3>2, <3>5, <3>6
  <2> QED BY <1>0, <2>1, <2>2, <2>3
<1> HIDE DEF T
<1>10. 0..n \subseteq T
  BY <1>0, <1>8, <1>9, Inductive
<1>11. \A j \in k - 1..n : Past(w, j) - d = Past(o, j) - e
  <2> SUFFICES ASSUME NEW j \in k - 1..n PROVE Past(w, j) - d = Past(o, j) - e
    OBVIOUS
  <2>1. j \in 0..n /\ ~(j < k - 1)
    BY <1>0
  <2> QED BY <1>10, <2>1 DEF T
<1>12. Len(FlattenSeq(w)) - d = Len(FlattenSeq(o)) - e
  <2>1. n \in k - 1..n
    BY <1>0
  <2> QED BY <1>1, <1>2, <1>11, <2>1
<1>13. ASSUME NEW p \in d + 1..Len(FlattenSeq(w)) PROVE FlattenSeq(w)[p] = FlattenSeq(o)[(p - d) + e]
  <2>0. p \in 1..Len(FlattenSeq(w)) /\ p > d
    <3>1. n \in 0..n
      BY <1>0
    <3>2. Len(FlattenSeq(w)) \in Nat
      BY <1>1, <3>1
    <3> QED BY <1>7, <3>2
  <2>1. PICK i \in 1..n : \E m \in 1..Len(w[i]) : p = Past(w, i - 1) + m
    BY <1>4, <2>0
  <2>2. PICK m \in 1..Len(w[i]) : p = Past(w, i - 1) + m
    BY <2>1
  <2>3. i - 1 \in 0..n /\ i \in 0..n
    BY <1>0
  <2>4. Past(w, i - 1) \in Nat /\ Past(w, i) = Past(w, i - 1) + Len(w[i]) /\ Len(w[i]) \in Nat
    BY <1>1, <2>3
  <2>5. i >= k
    <3>1. i < k => Past(w, i) <= d
      <4>1. i < k => k - 1 \in i..n
        BY <1>0
      <4> QED BY <1>1, <1>7, <2>3, <4>1
    <3> QED BY <1>0, <1>7, <2>0, <2>2, <2>4, <3>1
  <2>6. i \in k..n /\ i - 1 \in k - 1..n
    BY <1>0, <2>5
  <2>7. w[i] = o[i] /\ Past(w, i - 1) - d = Past(o, i - 1) - e
    BY <1>3, <1>11, <2>6
  <2>8. Past(o, i - 1) \in Nat
    BY <1>2, <2>3
  <2>9. (p - d) + e = Past(o, i - 1) + m
    <3>1. m \in Nat
      BY <2>2, <2>4
    <3>2. p - d = (Past(w, i - 1) - d) + m
      BY <1>7, <2>2, <2>4, <3>1
    <3>3. (Past(o, i - 1) - e) + m + e = Past(o, i - 1) + m
      BY <1>7, <2>8, <3>1
    <3> QED BY <2>7, <3>2, <3>3
  <2>10. FlattenSeq(o)[Past(o, i - 1) + m] = o[i][m]
    BY <1>6, <2>2, <2>7
  <2>11. FlattenSeq(w)[p] = w[i][m]
    BY <1>5, <2>2
  <2> QED BY <2>7, <2>9, <2>10, <2>11
<1> QED
  BY <1>7, <1>12, <1>13 DEF SameAfter, d, e

\* What's outside the user information of two texts that differ in it alone.
LEMMA SameOutside ==
  ASSUME NEW S, NEW text \in Seq(S), NEW other \in Seq(S), NEW s, NEW a, NEW b,
         ReadAt(text, s, a), ReadAt(other, s, b), SameAfter(text, a, other, b),
         \A p \in 1..s : text[p] = other[p]
  PROVE  OutsideInformation(text) = OutsideInformation(other)
<1>0. /\ Len(text) \in Nat /\ Len(other) \in Nat /\ a \in 1..Len(text) /\ b \in 1..Len(other)
      /\ s \in 0..a - 1 /\ s \in 0..b - 1
  BY DEF ReadAt
<1>1. SubSeq(text, 1, s) = SubSeq(other, 1, s)
  <2>0. s \in 0..Len(text) /\ s \in 0..Len(other)
    BY <1>0
  <2>1. SubSeq(text, 1, s) \in Seq(S) /\ SubSeq(other, 1, s) \in Seq(S)
        /\ Len(SubSeq(text, 1, s)) = s /\ Len(SubSeq(other, 1, s)) = s
    BY <2>0
  <2>2. \A i \in 1..s : SubSeq(text, 1, s)[i] = SubSeq(other, 1, s)[i]
    BY <2>0
  <2> QED BY <2>1, <2>2, SeqEqual
<1>2. SubSeq(text, a + 1, Len(text)) = SubSeq(other, b + 1, Len(other))
  <2> DEFINE l == Len(text) - a
             x == SubSeq(text, a + 1, Len(text))
             y == SubSeq(other, b + 1, Len(other))
  <2>0. l \in Nat /\ Len(text) = a + l /\ Len(other) = b + l
    BY <1>0 DEF SameAfter
  <2>1. CASE l = 0
    <3>1. x = <<>> /\ y = <<>>
      BY <1>0, <2>0, <2>1
    <3> QED BY <3>1
  <2>2. CASE l # 0
    <3>0. /\ a + 1 \in 1..Len(text) /\ b + 1 \in 1..Len(other) /\ Len(text) - (a + 1) + 1 = l
          /\ Len(other) - (b + 1) + 1 = l
          /\ \A i \in 1..l : (a + 1) + i - 1 = a + i /\ (b + 1) + i - 1 = b + i
      <4>0. a \in Nat /\ b \in Nat
        BY <1>0
      <4>1. a \in Nat /\ b \in Nat /\ l \in Nat \ {0} /\ Len(text) = a + l /\ Len(other) = b + l
        <5> HIDE DEF l
        <5> QED BY <2>0, <2>2, <4>0
      <4> HIDE DEF l
      <4>2. a + 1 \in 1..a + l /\ (a + l) - (a + 1) + 1 = l /\ b + 1 \in 1..b + l /\ (b + l) - (b + 1) + 1 = l
        BY <4>1
      <4>3. \A i \in 1..l : (a + 1) + i - 1 = a + i /\ (b + 1) + i - 1 = b + i
        BY <4>1
      <4> QED BY <4>1, <4>2, <4>3
    <3> DEFINE c == a + 1
               d == b + 1
    <3>a. /\ c \in 1..Len(text) /\ d \in 1..Len(other) /\ Len(text) - c + 1 = l /\ Len(other) - d + 1 = l
          /\ \A i \in 1..l : c + i - 1 = a + i /\ d + i - 1 = b + i
      BY <3>0
    <3>b. x = SubSeq(text, c, Len(text)) /\ y = SubSeq(other, d, Len(other))
      OBVIOUS
    <3> HIDE DEF c, d, x, y, l
    <3>c. /\ SubSeq(text, c, Len(text)) \in Seq(S) /\ Len(SubSeq(text, c, Len(text))) = Len(text) - c + 1
          /\ \A i \in 1..Len(text) - c + 1 : SubSeq(text, c, Len(text))[i] = text[c + i - 1]
      BY <1>0, <3>a, SubSeqProperties
    <3>d. /\ SubSeq(other, d, Len(other)) \in Seq(S) /\ Len(SubSeq(other, d, Len(other))) = Len(other) - d + 1
          /\ \A i \in 1..Len(other) - d + 1 : SubSeq(other, d, Len(other))[i] = other[d + i - 1]
      BY <1>0, <3>a, SubSeqProperties
    <3>1. x \in Seq(S) /\ Len(x) = l /\ \A i \in 1..l : x[i] = text[a + i]
      BY <3>a, <3>b, <3>c
    <3>2. y \in Seq(S) /\ Len(y) = l /\ \A i \in 1..l : y[i] = other[b + i]
      BY <3>a, <3>b, <3>d
    <3>3. \A i \in 1..l : text[a + i] = other[b + i]
      <4> SUFFICES ASSUME NEW i \in 1..l PROVE text[a + i] = other[b + i]
        OBVIOUS
      <4>1. a + i \in a + 1..Len(text) /\ ((a + i) - a) + b = b + i
        BY <1>0, <2>0 DEF l
      <4> QED BY <4>1 DEF SameAfter
    <3>4. x = y
      BY <3>1, <3>2, <3>3, SeqEqual
    <3> QED BY <3>4 DEF x, y
  <2> QED BY <2>1, <2>2
<1>3. /\ AuthorityStart(text) - 1 = s /\ AuthorityStart(other) - 1 = s
      /\ HasInformation(text) /\ HasInformation(other) /\ Max(Ats(text)) = a /\ Max(Ats(other)) = b
  BY <1>0 DEF ReadAt
<1> QED
  BY <1>1, <1>2, <1>3 DEF OutsideInformation

\* The file's contents come from no variable.
LEMMA DroppedIs ==
  ASSUME NEW c, NEW file
  PROVE  Derived(c, file).dropped = VariablesOf(Own(c, <<>>) \union Given(c))
<1> DEFINE made == Made([field |-> "client_key", name |-> ""], {FromContents}, {file})
<1>0. ASSUME NEW key, NEW source, NEW values
      PROVE  \A credential \in Made(key, {source}, values) : credential.source = source
  BY DEF Made
<1>1. \A credential \in made : credential.source.kind # "variable"
  <2>1. FromContents.kind # "variable"
    BY DEF FromContents
  <2>2. \A credential \in made : credential.source = FromContents
    BY <1>0
  <2> QED BY <2>1, <2>2
<1> HIDE DEF made
<1>2. Own(c, file) = Own(c, <<>>) \union (IF file = <<>> THEN {} ELSE made)
  BY DEF Own, made
<1>3. Derived(c, file).dropped = VariablesOf(Own(c, file) \union Given(c))
  BY DEF Derived
<1> QED
  BY <1>1, <1>2, <1>3 DEF VariablesOf

\* A credential's variable is one that a text names.
LEMMA VariablesAreNamed ==
  ASSUME NEW c
  PROVE  NoName \notin VariablesOf(Own(c, <<>>) \union Given(c))
<1> DEFINE Named(credential) == credential.source.kind = "variable" => credential.source.name # NoName
<1>1. ASSUME NEW key PROVE NoName \notin Names(c, key)
  BY DEF Names, NamesOf
<1>2. ASSUME NEW key, NEW names, NEW values, NoName \notin names
      PROVE  \A credential \in Made(key, {FromVariable(name) : name \in names}, values) : Named(credential)
  BY <1>2 DEF Made, FromVariable
<1>3. ASSUME NEW key, NEW values
      PROVE  /\ \A credential \in Made(key, {FromCode}, values) : Named(credential)
             /\ \A credential \in Made(key, {FromKey}, values) : Named(credential)
  <2>1. FromCode.kind # "variable" /\ FromKey.kind # "variable"
    BY DEF FromCode, FromKey
  <2>2. \A credential \in Made(key, {FromCode}, values) : credential.source = FromCode
    BY DEF Made
  <2>3. \A credential \in Made(key, {FromKey}, values) : credential.source = FromKey
    BY DEF Made
  <2> QED BY <2>1, <2>2, <2>3
<1> HIDE DEF Named
<1>4. ASSUME NEW key PROVE \A credential \in SecretAt(c, key) : Named(credential)
  <2>1. \A credential \in Made(key, {FromVariable(name) : name \in Names(c, key)}, {}) : Named(credential)
    BY <1>1, <1>2
  <2>2. \A credential \in Made(key, {FromVariable(name) : name \in Names(c, key)}, {Value(c, key)}) :
          Named(credential)
    BY <1>1, <1>2
  <2>3. Sources(c, key) \in {{FromCode}, {FromKey}, {FromVariable(name) : name \in Names(c, key)}}
    BY DEF Sources
  <2>4. \A credential \in Made(key, Sources(c, key), {Value(c, key)}) : Named(credential)
    BY <1>3, <2>2, <2>3
  <2> QED BY <2>1, <2>4 DEF SecretAt
<1>5. ASSUME NEW key PROVE \A credential \in HeadersTextSecret(c, key) : Named(credential)
  <2> DEFINE sources == IF Names(c, key) # {} THEN {FromVariable(name) : name \in Names(c, key)}
                        ELSE IF IsWritten(c, key) THEN {FromKey} ELSE {FromCode}
             text == Value(c, key)
             values == {text} \union {Decoded(value) : value \in PairValues(text)}
  <2>1. HeadersTextSecret(c, key) \in {Made(key, sources, values), Made(key, sources, {})}
    BY DEF HeadersTextSecret
  <2> HIDE DEF values
  <2>2. ASSUME NEW some PROVE \A credential \in Made(key, sources, some) : Named(credential)
    BY <1>1, <1>2, <1>3
  <2> HIDE DEF sources
  <2> QED BY <2>1, <2>2
<1>6. ASSUME NEW key PROVE \A credential \in UrlSecret(c, key) : Named(credential)
  <2> DEFINE names == IF IsWritten(c, key) THEN InformationNames(c.written[key]) ELSE {}
             sources == IF names # {} THEN {FromVariable(name) : name \in names}
                        ELSE IF IsWritten(c, key) THEN {FromKey} ELSE {FromCode}
             values == InformationForms(Information(Value(c, key)))
  <2>1. UrlSecret(c, key) \in {{}, Made(key, sources, values)}
    BY DEF UrlSecret
  <2>2. NoName \notin names
    BY DEF InformationNames, NamesOf
  <2> HIDE DEF values, names
  <2>3. \A credential \in Made(key, sources, values) : Named(credential)
    BY <1>2, <1>3, <2>2
  <2> HIDE DEF sources
  <2> QED BY <2>1, <2>3
<1>7. \A credential \in Own(c, <<>>) \union Given(c) : Named(credential)
  BY <1>4, <1>5, <1>6 DEF Own, Given
<1> QED
  BY <1>7 DEF VariablesOf, Named

\* What a text comes to without the variables of credentials.
Without(variables, written, names) ==
  [i \in DOMAIN written |->
    IF written[i].name \in names THEN <<>> ELSE CameTo(variables, written[i])]

LEMMA WithoutIs ==
  ASSUME NEW variables, NEW written, NEW v, NEW w, Pieces(variables, written, v, w), NEW names
  PROVE  LET o == Without(variables, written, names)
         IN  /\ o \in Seq(Seq(DOMAIN Size)) /\ Len(o) = Len(written)
             /\ \A i \in 1..Len(written) : o[i] = IF written[i].name \in names THEN <<>> ELSE w[i]
             /\ (\A i \in 1..Len(written) : written[i].name \notin names) => o = w
<1> DEFINE n == Len(written)
           o == Without(variables, written, names)
<1>1. /\ n \in Nat /\ DOMAIN written = 1..n /\ w \in Seq(Seq(DOMAIN Size)) /\ Len(w) = n
      /\ \A i \in 1..n : w[i] = CameTo(variables, written[i])
  BY DEF Pieces
<1>2. DOMAIN o = 1..n /\ \A i \in 1..n : o[i] = IF written[i].name \in names THEN <<>> ELSE w[i]
  BY <1>1 DEF Without
<1>3. \A i \in 1..n : w[i] \in Seq(DOMAIN Size)
  BY <1>1
<1>4. o = [i \in 1..n |-> o[i]]
  BY <1>1 DEF Without
<1> HIDE DEF o, n
<1>5. \A i \in 1..n : o[i] \in Seq(DOMAIN Size)
  <2>1. <<>> \in Seq(DOMAIN Size)
    OBVIOUS
  <2> QED BY <1>2, <1>3, <2>1
<1>6. o \in Seq(Seq(DOMAIN Size)) /\ Len(o) = n
  <2> DEFINE T == Seq(DOMAIN Size)
  <2>1. o \in [1..n -> T] /\ n \in Nat
    BY <1>1, <1>4, <1>5
  <2> HIDE DEF T
  <2>2. o \in Seq(T) /\ Len(o) = n
    BY <2>1
  <2> QED BY <2>2 DEF T
<1>7. ASSUME \A i \in 1..n : written[i].name \notin names PROVE o = w
  <2>1. \A i \in 1..n : o[i] = w[i]
    BY <1>2, <1>7
  <2> QED BY <1>1, <1>6, <2>1, SeqEqual
<1> QED
  BY <1>2, <1>6, <1>7 DEF o, n

\* A URL's own credentials stand in its user information, so what's outside of
\* it is the same without them.
LEMMA OutsideIsSame ==
  ASSUME Derivation, Accepted, NEW key \in Filled("url"), KeepsDelimiters(config.written[key]),
         NEW names, NoName \notin names, OutsideNames(config.written[key]) \intersect names = {}
  PROVE  OutsideInformation(Value(config, key)) =
           OutsideInformation(FlattenSeq(Without(config.variables, config.written[key], names)))
<1> DEFINE written == config.written[key]
           x0 == config.variables
           v == Stood(written)
           w == Came(x0, written)
           G == Gives(x0, written)
           o == Without(x0, written, names)
           url == Value(config, key)
           S == DOMAIN Size \union NamesOf(written)
<1>1. /\ Pieces(x0, written, v, w) /\ Masked(written) = FlattenSeq(v) /\ url = FlattenSeq(w)
      /\ ~HoldsUnreadAt(url)
  BY UrlPasses, Zenon
<1>2. (NamesOf(written) # {} /\ HasInformation(Masked(written))) =>
        \E k \in 1..Len(v) : \E x \in 1..Len(v[k]) : \E q \in 0..k : \E y \in Nat :
               /\ WrittenAs(v, q, y, k, x) /\ FilledAs(v, w, G, q, k)
               /\ \A i \in 1..Len(v) : InInformation(written, i) <=> q < i /\ i < k
  BY UrlIsFilled, Zenon
<1>a. OutsideNames(written) \intersect names = {}
  OBVIOUS
<1> HIDE DEF written, v, w, G, url, S
<1>3. /\ o \in Seq(Seq(DOMAIN Size)) /\ Len(o) = Len(written)
      /\ \A i \in 1..Len(written) : o[i] = IF written[i].name \in names THEN <<>> ELSE w[i]
      /\ (\A i \in 1..Len(written) : written[i].name \notin names) => o = w
  BY <1>1, WithoutIs
<1> HIDE DEF o
<1>5. /\ Len(written) \in Nat /\ DOMAIN written = 1..Len(written)
      /\ v \in Seq(Seq(S)) /\ w \in Seq(Seq(DOMAIN Size))
      /\ Len(v) = Len(written) /\ Len(w) = Len(written)
  BY <1>1 DEF Pieces, S
<1>6. ASSUME NEW i \in 1..Len(written), written[i].name \in names
      PROVE  InInformation(written, i) /\ NamesOf(written) # {} /\ HasInformation(Masked(written))
  <2>1. written[i].name # NoName
    BY <1>6
  <2>2. InInformation(written, i)
    BY <1>5, <1>6, <1>a, <2>1 DEF OutsideNames
  <2>3. written[i].name \in NamesOf(written)
    BY <1>5, <2>1 DEF NamesOf, Range
  <2> QED BY <2>2, <2>3 DEF InInformation
<1>7. CASE ~(NamesOf(written) # {} /\ HasInformation(Masked(written)))
  <2>1. o = w
    BY <1>3, <1>6, <1>7
  <2> QED BY <1>1, <2>1 DEF url, o, written
<1>8. CASE NamesOf(written) # {} /\ HasInformation(Masked(written))
  <2>1. PICK k \in 1..Len(v) : \E x \in 1..Len(v[k]) : \E q \in 0..k : \E y \in Nat :
               /\ WrittenAs(v, q, y, k, x) /\ FilledAs(v, w, G, q, k)
               /\ \A i \in 1..Len(v) : InInformation(written, i) <=> q < i /\ i < k
    BY <1>2, <1>8
  <2>2. PICK x \in 1..Len(v[k]) : \E q \in 0..k : \E y \in Nat :
               /\ WrittenAs(v, q, y, k, x) /\ FilledAs(v, w, G, q, k)
               /\ \A i \in 1..Len(v) : InInformation(written, i) <=> q < i /\ i < k
    BY <2>1
  <2>3. PICK q \in 0..k : \E y \in Nat :
               /\ WrittenAs(v, q, y, k, x) /\ FilledAs(v, w, G, q, k)
               /\ \A i \in 1..Len(v) : InInformation(written, i) <=> q < i /\ i < k
    BY <2>2
  <2>4. PICK y \in Nat :
               /\ WrittenAs(v, q, y, k, x) /\ FilledAs(v, w, G, q, k)
               /\ \A i \in 1..Len(v) : InInformation(written, i) <=> q < i /\ i < k
    BY <2>3
  <2> DEFINE s == SchemeIn(w, G, q, y)
             a == Past(w, k - 1) + x
             H == G \union {i \in 1..Len(v) : written[i].name \in names}
             b == Past(o, k - 1) + x
  <2>5. \A i \in 1..Len(written) : ~(q < i /\ i < k) => o[i] = w[i] /\ (i \in H => i \in G)
    BY <1>3, <1>5, <1>6, <2>4
  <2>6. FilledAs(v, o, H, q, k)
    <3>1. Len(o) = Len(v) /\ k \in 1..Len(v) /\ G \subseteq 1..Len(v) /\ k \notin G
      BY <1>3, <1>5, <2>4 DEF FilledAs
    <3>2. H \subseteq 1..Len(v) /\ k \notin H
      <4>1. k \in 1..Len(written) /\ ~(q < k /\ k < k)
        BY <1>5, <3>1
      <4>2. k \in H => k \in G
        BY <2>5, <4>1
      <4> QED BY <3>1, <4>2
    <3>3. ASSUME NEW i \in 1..Len(v), i \notin H PROVE o[i] = v[i]
      <4>1. o[i] = w[i] /\ i \notin G
        BY <1>3, <1>5, <3>3
      <4> QED BY <2>4, <4>1 DEF FilledAs
    <3>4. ASSUME NEW i \in H, NEW m \in 1..Len(o[i])
          PROVE  o[i][m] # "@" /\ (q < i /\ i < k => o[i][m] \notin Ends)
      <4>1. i \in 1..Len(v)
        BY <3>2
      <4>2. CASE written[i].name \in names
        <5>1. o[i] = <<>>
          BY <1>3, <1>5, <4>1, <4>2
        <5> QED BY <5>1
      <4>3. CASE written[i].name \notin names
        <5>1. o[i] = w[i] /\ i \in G
          BY <1>3, <1>5, <4>1, <4>3
        <5> QED BY <2>4, <5>1 DEF FilledAs
      <4> QED BY <4>2, <4>3
    <3>5. ASSUME q \in H PROVE Len(o[q]) # 0 /\ o[q][Len(o[q])] = "://"
      <4>1. q \in 1..Len(v) /\ ~(q < q /\ q < k)
        BY <3>2, <3>5
      <4>2. o[q] = w[q] /\ q \in G
        BY <1>5, <2>5, <3>5, <4>1
      <4> QED BY <2>4, <4>2 DEF FilledAs
    <3> HIDE DEF H
    <3> QED BY <3>1, <3>2, <3>3, <3>4, <3>5 DEF FilledAs
  <2>7. ReadAt(FlattenSeq(w), s, a)
    <3>1. ~HoldsUnreadAt(FlattenSeq(w))
      BY <1>1
    <3> QED BY <1>5, <2>4, <3>1, FilledIsRead
  <2>8. /\ \A j \in 0..q : Past(w, j) = Past(o, j)
        /\ Past(w, q) <= Len(FlattenSeq(w)) /\ Past(w, q) <= Len(FlattenSeq(o))
        /\ \A p \in 1..Past(w, q) : FlattenSeq(w)[p] = FlattenSeq(o)[p]
    <3>1. q \in 0..Len(w) /\ Len(w) = Len(o)
      BY <1>3, <1>5
    <3>2. \A i \in 1..q : w[i] = o[i]
      <4> SUFFICES ASSUME NEW i \in 1..q PROVE w[i] = o[i]
        OBVIOUS
      <4>1. i \in 1..Len(written) /\ ~(q < i /\ i < k)
        BY <1>3, <3>1
      <4> QED BY <2>5, <4>1
    <3>3. w \in Seq(Seq(DOMAIN Size)) /\ o \in Seq(Seq(DOMAIN Size))
      BY <1>3, <1>5
    <3> QED BY <3>1, <3>2, <3>3, SameStart
  <2>9. SchemeIn(o, H, q, y) = s
    <3>1. q \in H <=> q \in G
      <4>1. q \in G => q \in H
        OBVIOUS
      <4>2. q \in H => q \in G
        <5>1. G \subseteq 1..Len(v)
          BY <2>4 DEF FilledAs
        <5>2. q \in H => q \in 1..Len(written) /\ ~(q < q /\ q < k)
          BY <1>5, <5>1
        <5> HIDE DEF H
        <5> QED BY <2>5, <5>2
      <4> QED BY <4>1, <4>2
    <3>2. Past(o, q) = Past(w, q) /\ (q # 0 => Past(o, q - 1) = Past(w, q - 1))
      <4>1. q \in 0..q /\ (q # 0 => q - 1 \in 0..q)
        BY <1>5
      <4> QED BY <2>8, <4>1
    <3> QED BY <3>1, <3>2 DEF SchemeIn, SchemeAt
  <2>10. s \in Nat /\ s <= Past(w, q) /\ Past(w, q) \in Nat
    <3>0. q \in 0..Len(w) /\ Past(w, q) \in Nat
      <4>1. q \in 0..Len(w)
        BY <1>5
      <4> QED BY <1>5, <4>1, PastIs
    <3>1. CASE q \in G
      BY <3>0, <3>1 DEF SchemeIn
    <3>2. CASE q \notin G /\ q = 0
      BY <3>0, <3>2 DEF SchemeIn, SchemeAt
    <3>3. CASE q \notin G /\ q # 0
      <4>1. q \in 1..Len(w) /\ q - 1 \in 0..Len(w)
        BY <3>0, <3>3, <1>5
      <4>2. y \in 1..Len(w[q])
        <5>1. y \in 1..Len(v[q])
          BY <2>4, <3>3 DEF WrittenAs
        <5>2. w[q] = v[q]
          BY <1>5, <2>4, <3>3, <4>1 DEF FilledAs
        <5> QED BY <5>1, <5>2
      <4>3. s = Past(w, q - 1) + y
        BY <3>3 DEF SchemeIn, SchemeAt
      <4>4. Past(w, q) = Past(w, q - 1) + Len(w[q]) /\ Len(w[q]) \in Nat
        BY <1>5, <4>1, PastIs
      <4>5. Past(w, q - 1) \in Nat
        BY <1>5, <4>1, PastIs
      <4> HIDE DEF s
      <4> QED BY <3>0, <4>2, <4>3, <4>4, <4>5
    <3> QED BY <3>1, <3>2, <3>3
  <2> HIDE DEF s, a, b, H
  <2>11. ReadAt(FlattenSeq(o), s, b)
    <3>1. \A p \in 1..s - 1 : FlattenSeq(o)[p] \notin Delimiters
      <4> SUFFICES ASSUME NEW p \in 1..s - 1 PROVE FlattenSeq(o)[p] \notin Delimiters
        OBVIOUS
      <4>1. p \in 1..Past(w, q)
        BY <2>10
      <4>2. FlattenSeq(w)[p] \notin Delimiters
        BY <2>7 DEF ReadAt
      <4> QED BY <2>8, <4>1, <4>2
    <3>2. HoldsUnreadAt(FlattenSeq(o)) =>
            \A p \in 1..SchemeIn(o, H, q, y) - 1 : FlattenSeq(o)[p] \notin Delimiters
      BY <2>9, <3>1
    <3>3. WrittenAs(v, q, y, k, x)
      BY <2>4
    <3>4. ReadAt(FlattenSeq(o), SchemeIn(o, H, q, y), Past(o, k - 1) + x)
      BY <1>3, <1>5, <2>6, <3>2, <3>3, FilledIsRead
    <3> QED BY <2>9, <3>4 DEF b
  <2>12. \A p \in 1..s : FlattenSeq(w)[p] = FlattenSeq(o)[p]
    <3>1. \A p \in 1..s : p \in 1..Past(w, q)
      BY <2>10
    <3> QED BY <2>8, <3>1
  <2> DEFINE d == Past(w, k - 1)
             e == Past(o, k - 1)
  <2>13. /\ d \in Nat /\ e \in Nat /\ Len(FlattenSeq(w)) - d = Len(FlattenSeq(o)) - e
         /\ \A p \in d + 1..Len(FlattenSeq(w)) : FlattenSeq(w)[p] = FlattenSeq(o)[(p - d) + e]
    <3>1. k \in 1..Len(w) /\ Len(w) = Len(o)
      BY <1>3, <1>5
    <3>2. \A i \in k..Len(w) : w[i] = o[i]
      <4> SUFFICES ASSUME NEW i \in k..Len(w) PROVE w[i] = o[i]
        OBVIOUS
      <4>1. i \in 1..Len(written) /\ ~(q < i /\ i < k)
        BY <1>5, <3>1
      <4> QED BY <2>5, <4>1
    <3>3. w \in Seq(Seq(DOMAIN Size)) /\ o \in Seq(Seq(DOMAIN Size))
      BY <1>3, <1>5
    <3>4. SameAfter(FlattenSeq(w), Past(w, k - 1), FlattenSeq(o), Past(o, k - 1))
      BY <3>1, <3>2, <3>3, SameEnd
    <3> QED BY <3>4 DEF SameAfter
  <2>14. FlattenSeq(w) \in Seq(DOMAIN Size) /\ FlattenSeq(o) \in Seq(DOMAIN Size)
    BY <1>3, <1>5, FlattenedIsText
  <2>15. a = d + x /\ b = e + x /\ x \in Nat
    <3>1. Len(v[k]) \in Nat
      BY <1>5, PastIs
    <3> QED BY <3>1 DEF a, b
  <2> HIDE DEF d, e
  <2>16. Len(FlattenSeq(w)) \in Nat /\ Len(FlattenSeq(o)) \in Nat
    BY <2>14
  <2>17. Len(FlattenSeq(w)) - a = Len(FlattenSeq(o)) - b
    BY <2>13, <2>15, <2>16
  <2>18. \A p \in a + 1..Len(FlattenSeq(w)) : FlattenSeq(w)[p] = FlattenSeq(o)[(p - a) + b]
    <3> SUFFICES ASSUME NEW p \in a + 1..Len(FlattenSeq(w))
                 PROVE  FlattenSeq(w)[p] = FlattenSeq(o)[(p - a) + b]
      OBVIOUS
    <3>1. p \in d + 1..Len(FlattenSeq(w)) /\ (p - a) + b = (p - d) + e
      BY <2>13, <2>15, <2>16
    <3> QED BY <2>13, <3>1
  <2>19. OutsideInformation(FlattenSeq(w)) = OutsideInformation(FlattenSeq(o))
    <3>1. SameAfter(FlattenSeq(w), a, FlattenSeq(o), b)
      BY <2>13, <2>15, <2>17, <2>18 DEF SameAfter
    <3> QED BY <2>7, <2>11, <2>12, <2>14, <3>1, SameOutside
  <2> QED BY <1>1, <2>19 DEF url, o, written
<1> QED
  BY <1>7, <1>8

\* What's shown of a plain setting, and of a URL but for its user information,
\* is the same whatever the credentials' variables hold: each stands in the
\* fields of its own credential (prepare's rule for credentials' variables).
THEOREM NoneIsEverShown == Spec => []ShownHoldsNone
<1>1. Derivation => ShownHoldsNone
  <2> SUFFICES ASSUME Derivation, stage \in {"settled", "built", "started"},
                      NEW key \in Filled("url") \union Filled("plain")
               PROVE  LET written == config.written[key]
                          others == FlattenSeq(Without(config.variables, written, secrets.dropped))
                      IN  IF key.field = "plain" THEN Value(config, key) = others
                          ELSE KeepsDelimiters(written) =>
                                 OutsideInformation(Value(config, key)) = OutsideInformation(others)
    BY DEF ShownHoldsNone, Without
  <2> DEFINE written == config.written[key]
             names == secrets.dropped
             credentials == VariablesOf(Own(config, <<>>) \union Given(config))
  <2>1. Accepted /\ Lasting(config) /\ ~CredentialVariableElsewhere(config)
        /\ secrets = Derived(config, contents)
    BY DEF Derivation, Accepted, Lasting, PrepareRefuses
  <2>2. names = credentials
    BY <2>1, DroppedIs
  <2>3. NoName \notin names
    BY <2>2, VariablesAreNamed
  <2>4. /\ key \in DOMAIN config.written /\ key \notin DOMAIN config.code
        /\ key \in Filled("url") => key.field = "url"
        /\ key \in Filled("plain") => key.field = "plain"
    BY DEF Filled, Entries, At
  <2>5. credentials \intersect
          (IF key.field = "url" THEN OutsideNames(written) ELSE Names(config, key)) = {}
    <3>1. key.field # "env" /\ ~IsCredential(key)
      BY <2>4 DEF IsCredential
    <3> HIDE DEF credentials, written
    <3> QED BY <2>1, <2>4, <3>1 DEF CredentialVariableElsewhere, credentials, written
  <2> HIDE DEF names, credentials
  <2>6. CASE key \in Filled("url")
    <3>1. key.field # "plain" /\ OutsideNames(written) \intersect names = {}
      BY <2>2, <2>4, <2>5, <2>6
    <3> QED BY <2>1, <2>3, <2>6, <3>1, OutsideIsSame DEF names
  <2>7. CASE key \in Filled("plain")
    <3>1. key.field = "plain" /\ Names(config, key) \intersect names = {}
      BY <2>2, <2>4, <2>5, <2>7
    <3>2. key # ApiKey
      <4>1. ApiKey.field # "plain"
        BY DEF ApiKey
      <4> QED BY <3>1, <4>1
    <3> DEFINE v == Stood(written)
               w == Came(config.variables, written)
               o == Without(config.variables, written, names)
    <3>3. Pieces(config.variables, written, v, w)
      BY <2>1, <2>4, <3>2, PiecesAre
    <3>4. Names(config, key) = NamesOf(written)
      BY <2>4 DEF Names, IsWritten
    <3>5. Value(config, key) = FlattenSeq(w)
      BY <2>4 DEF Value, Text, Came
    <3> HIDE DEF written, v, w
    <3>6. ASSUME NEW i \in 1..Len(written) PROVE written[i].name \notin names
      <4>1. written[i] \in Range(written)
        BY <3>3 DEF Pieces, Range
      <4>2. written[i].name = NoName \/ written[i].name \in NamesOf(written)
        BY <4>1 DEF NamesOf
      <4> QED BY <2>3, <3>1, <3>4, <4>2
    <3>7. o = w
      BY <3>3, <3>6, WithoutIs
    <3> QED BY <3>1, <3>5, <3>7 DEF written, names
  <2> QED BY <2>6, <2>7
<1> QED
  BY <1>1, DerivationHolds, PTL
=============================================================================
