----------------------------- MODULE BootProofs -----------------------------
(***************************************************************************)
(* The start of fanctld and the names of its headers, for every wait,      *)
(* every timeout, every headers.yaml and any number of daemons.            *)
(***************************************************************************)
EXTENDS Boot, TLAPS

-----------------------------------------------------------------------------
(* Headers.                                                                *)

\* A name leads to the header that bears it, or to none: never past it to
\* another header (config.IndexByName).
LEMMA IndexFaithful ==
    ASSUME NEW c, NEW n, NEW i \in DOMAIN c, normalizeName(c[i]) = normalizeName(n)
    PROVE  IndexByName(c, n) \in {i, NoIndex}
  <1>1. i \in Matches(c, n)
    BY DEF Matches
  <1>2. CASE \E j \in DOMAIN c : Matches(c, n) = {j}
    <2> DEFINE k == CHOOSE j \in DOMAIN c : Matches(c, n) = {j}
    <2>1. Matches(c, n) = {k}
      BY <1>2
    <2>2. k = i
      BY <1>1, <2>1
    <2> QED  BY <1>2, <2>2 DEF IndexByName
  <1>3. CASE ~ \E j \in DOMAIN c : Matches(c, n) = {j}
    BY <1>3 DEF IndexByName
  <1> QED  BY <1>2, <1>3

\* How a name is spelled does not matter.
LEMMA SpellingIgnored ==
    ASSUME NEW n \in Name, NEW b \in BOOLEAN
    PROVE  /\ [n EXCEPT !.canonical = b] \in Name
           /\ normalizeName([n EXCEPT !.canonical = b]) = normalizeName(n)
  <1> DEFINE m == [n EXCEPT !.canonical = b]
  <1>1. m \in Name /\ m.stem = n.stem /\ m.suffixes = n.suffixes
    BY DEF Name
  <1> QED  BY <1>1 DEF normalizeName

LEMMA PlainNames == HeadersAssumption =>
    /\ Plain(EmptyStem) \in Name
    /\ \A s \in Stems : Plain(s) \in Name
  BY DEF Plain, Name, MaxSuffixes

LEMMA NoHeadersIsConfig ==
    ASSUME NEW I
    PROVE  IsConfig(NoHeaders, I)
  BY DEF IsConfig, NoHeaders

LEMMA FoundConfig ==
    ASSUME NEW f, IsFile(f), Found(f)
    PROVE  IsConfig(Find(f), Nat \ {0})
  <1>1. CASE f.exists
    BY <1>1 DEF IsFile, Found, Find, Parses, IsConfig
  <1>2. CASE ~f.exists
    BY <1>2, NoHeadersIsConfig DEF Find
  <1> QED  BY <1>1, <1>2

LEMMA LabelIsName ==
    ASSUME HeadersAssumption, BootAssumption,
           NEW c, IsConfig(c, Nat \ {0}), NEW i \in Fans
    PROVE  Label(c, i) \in Name
  <1>1. CASE Named(c, i)
    BY <1>1 DEF Named, Label, IsConfig
  <1>2. CASE ~Named(c, i)
    <2>1. Plain(FanStem[i]) \in Name
      BY PlainNames DEF BootAssumption
    <2> QED  BY <1>2, <2>1, SpellingIgnored DEF Label
  <1> QED  BY <1>1, <1>2

-----------------------------------------------------------------------------
(* Types.                                                                  *)

DaemonTypes ==
    /\ pc \in [Daemons -> Starting \cup {"off", "serving", "restart"}]
    /\ age \in [Daemons -> Nat]
    /\ nap \in [Daemons -> Nat]
    /\ path \in [Daemons -> Paths \cup {NoChip}]
    /\ DOMAIN cfg = Daemons /\ \A d \in Daemons : IsConfig(cfg[d], Nat \ {0})
    /\ owner \in Daemons \cup {Nobody}

LEMMA GoneTypes ==
    ASSUME TypeOK, NEW d \in Daemons, NEW to \in {"off", "restart"}, NEW wait \in Nat,
           Gone(d, to, wait)
    PROVE  DaemonTypes'
  BY NoHeadersIsConfig DEF TypeOK, DaemonTypes, Gone

LEMMA FailsTypes ==
    ASSUME BootAssumption, TypeOK, NEW d \in Daemons, Fails(d)
    PROVE  DaemonTypes'
  <1>1. RestartSec \in Nat
    BY DEF BootAssumption
  <1> QED  BY <1>1, GoneTypes DEF Fails

LEMMA TryAgainTypes ==
    ASSUME BootAssumption, TypeOK, NEW d \in Daemons, TryAgain(d)
    PROVE  DaemonTypes'
  <1>1. CASE Fails(d)
    BY <1>1, FailsTypes
  <1>2. CASE ~Fails(d)
    BY <1>2 DEF TryAgain, TypeOK, DaemonTypes, Starting, BootAssumption
  <1> QED  BY <1>1, <1>2

LEMMA DaemonStepTypes ==
    ASSUME BootAssumption, TypeOK, NEW d \in Daemons, DaemonSteps(d)
    PROVE  DaemonTypes'
  <1>1. CASE FindChip(d)
    <2>1. CASE chip = NoChip
      BY <1>1, <2>1, TryAgainTypes DEF FindChip
    <2>2. CASE chip # NoChip
      BY <1>1, <2>2 DEF FindChip, TypeOK, DaemonTypes, Starting
    <2> QED  BY <2>1, <2>2
  <1>2. CASE Load(d)
    <2>1. CASE ~Found(file)
      BY <1>2, <2>1, TryAgainTypes DEF Load
    <2>2. CASE Found(file)
      <3>1. IsConfig(Find(file), Nat \ {0})
        BY <2>2, FoundConfig DEF TypeOK
      <3> QED  BY <1>2, <2>2, <3>1 DEF Load, TypeOK, DaemonTypes, Starting
    <2> QED  BY <2>1, <2>2
  <1>3. CASE Wake(d)
    BY <1>3 DEF Wake, TypeOK, DaemonTypes, Starting
  <1>4. CASE AcquireName(d)
    <2>1. CASE owner = Nobody
      BY <1>4, <2>1 DEF AcquireName, Serve, TypeOK, DaemonTypes
    <2>2. CASE owner # Nobody
      BY <1>4, <2>2, FailsTypes DEF AcquireName
    <2> QED  BY <2>1, <2>2
  <1> QED  BY <1>1, <1>2, <1>3, <1>4 DEF DaemonSteps

\* What none of the daemons' own steps touches.
Elsewhere == <<chip, files, command, loads, writes, sets>>

LEMMA DaemonsOnly ==
    ASSUME TypeOK, DaemonTypes', UNCHANGED Elsewhere,
           wanted' \in BOOLEAN, stops' \in Nat
    PROVE  TypeOK'
  BY DEF TypeOK, DaemonTypes, Elsewhere, files, command

LEMMA TypeStep ==
    ASSUME HeadersAssumption, BootAssumption, TypeOK, [Next]_vars
    PROVE  TypeOK'
  <1> USE DEF counts
  <1>0. wanted \in BOOLEAN /\ stops \in Nat
    BY DEF TypeOK
  <1>1. ASSUME NEW d \in Daemons, DaemonSteps(d)
        PROVE  TypeOK'
    <2>1. UNCHANGED Elsewhere /\ UNCHANGED <<wanted, stops>>
      BY <1>1 DEF DaemonSteps, FindChip, Load, Wake, AcquireName, Elsewhere
    <2> QED  BY <1>0, <1>1, <2>1, DaemonStepTypes, DaemonsOnly
  <1>2. ASSUME NEW d \in Daemons, Start(d) \/ (d = Unit /\ Restart)
        PROVE  TypeOK'
    <2>1. DaemonTypes'
      BY <1>2 DEF Start, Restart, Enter, TypeOK, DaemonTypes, Starting
    <2>2. UNCHANGED Elsewhere /\ UNCHANGED stops /\ wanted' \in BOOLEAN
      BY <1>0, <1>2 DEF Start, Restart, Elsewhere
    <2> QED  BY <1>0, <2>1, <2>2, DaemonsOnly
  <1>3. ASSUME NEW d \in Daemons, Stop(d) \/ Crash(d)
        PROVE  TypeOK'
    <2>1. DaemonTypes'
      BY <1>3, GoneTypes, FailsTypes DEF Stop, Crash
    <2>2. UNCHANGED Elsewhere /\ stops' = stops + 1
      BY <1>3 DEF Stop, Crash, Elsewhere
    <2>3. wanted' \in BOOLEAN
      BY <1>0, <1>3 DEF Stop, Crash
    <2> QED  BY <1>0, <2>1, <2>2, <2>3, DaemonsOnly
  <1>4. ASSUME Tick
        PROVE  TypeOK'
    <2>1. DaemonTypes'
      BY <1>4 DEF Tick, TypeOK, DaemonTypes
    <2> QED  BY <1>0, <1>4, <2>1, DaemonsOnly DEF Tick, Elsewhere
  <1>5. ASSUME DriverChanges
        PROVE  TypeOK'
    BY <1>5 DEF DriverChanges, TypeOK, files, daemons, command
  <1>6. ASSUME Edit
        PROVE  TypeOK'
    <2>1. IsFile(file')
      BY <1>6 DEF Edit, BootAssumption
    <2> QED  BY <1>6, <2>1 DEF Edit, TypeOK, daemons, command
  <1>7. ASSUME NEW force \in BOOLEAN, InitConfig(force)
        PROVE  TypeOK'
    BY <1>7 DEF InitConfig, TypeOK, daemons, command
  <1>8. ASSUME Truncate \/ Fill
        PROVE  TypeOK'
    <2>1. IsFile(Holding(NoHeaders))
      BY NoHeadersIsConfig DEF IsFile, Holding
    <2>2. IsFile(file') /\ init' \in {"off", "write", "fill"}
      BY <1>8, <2>1 DEF Truncate, Fill, BootAssumption
    <2> QED  BY <1>8, <2>2 DEF Truncate, Fill, TypeOK, daemons, command
  <1>9. ASSUME NEW d \in Daemons, NEW i \in Fans, TypeName(d, i)
        PROVE  TypeOK'
    <2>1. PICK spelled \in BOOLEAN :
             set' = [meant |-> i, told |-> cfg[d],
                     typed |-> [Label(cfg[d], i) EXCEPT !.canonical = spelled]]
      BY <1>9 DEF TypeName
    <2>2. IsConfig(cfg[d], Nat \ {0})
      BY DEF TypeOK
    <2>3. [Label(cfg[d], i) EXCEPT !.canonical = spelled] \in Name
      BY <2>2, LabelIsName, SpellingIgnored
    <2>4. set'.meant \in Nat /\ set'.typed \in Name /\ IsConfig(set'.told, Nat \ {0})
      BY <2>1, <2>2, <2>3 DEF BootAssumption
    <2>5. driven' \in Nat /\ sets' \in Nat
      BY <1>9 DEF TypeName, TypeOK, NoIndex
    <2> QED  BY <1>9, <2>4, <2>5 DEF TypeName, TypeOK, files, daemons
  <1>10. ASSUME SetByName
         PROVE  TypeOK'
    <2>1. driven' \in Nat
      BY <1>10 DEF SetByName, BootAssumption, NoIndex
    <2>2. set'.meant \in Nat /\ set'.typed \in Name /\ IsConfig(set'.told, Nat \ {0})
      BY <1>10, NoHeadersIsConfig, PlainNames DEF SetByName, Idle, NoIndex
    <2> QED  BY <1>10, <2>1, <2>2 DEF SetByName, TypeOK, files, daemons
  <1>11. CASE UNCHANGED vars
    BY <1>11 DEF vars, TypeOK, files, daemons, command
  <1> QED
    BY <1>1, <1>2, <1>3, <1>4, <1>5, <1>6, <1>7, <1>8, <1>9, <1>10, <1>11
    DEF Next, Daemons

-----------------------------------------------------------------------------
(* The invariant.                                                          *)

\* A daemon that looks for its chip has been up for no longer than the wait
\* and one sleep, and will not be at the end of the sleep it is in.
InTime ==
    \A d \in Daemons :
        /\ pc[d] = "sleep" => age[d] + nap[d] <= ChipWait + RetryEach
        /\ pc[d] \in Starting => age[d] <= ChipWait + RetryEach

ServesByName == \A d \in Daemons : pc[d] = "serving" => owner = d

\* The name typed is the name listed, up to its spelling.
TypedAsListed ==
    Named(set.told, set.meant) =>
        normalizeName(set.typed) = normalizeName(set.told[set.meant])

BootInv == TypeOK /\ InTime /\ ServesByName /\ TypedAsListed

LEMMA InitInv == HeadersAssumption /\ BootAssumption /\ Init => BootInv
  <1> SUFFICES ASSUME HeadersAssumption, BootAssumption, Init
               PROVE  BootInv
    OBVIOUS
  <1>1. IsFile(file)
    BY DEF Init, BootAssumption
  <1>2. TypeOK
    <2>1. /\ pc \in [Daemons -> Starting \cup {"off", "serving", "restart"}]
          /\ age \in [Daemons -> Nat]
          /\ nap \in [Daemons -> Nat]
          /\ path \in [Daemons -> Paths \cup {NoChip}]
      BY DEF Init, Starting
    <2>2. DOMAIN cfg = Daemons /\ \A d \in Daemons : IsConfig(cfg[d], Nat \ {0})
      BY NoHeadersIsConfig DEF Init
    <2>3. set.meant \in Nat /\ set.typed \in Name /\ IsConfig(set.told, Nat \ {0})
      BY NoHeadersIsConfig, PlainNames DEF Init, Idle, NoIndex
    <2>4. {loads, writes, stops, sets} \subseteq Nat /\ driven \in Nat
      BY DEF Init, NoIndex
    <2>5. /\ chip \in Paths \cup {NoChip} /\ init \in {"off", "write", "fill"}
          /\ owner \in Daemons \cup {Nobody} /\ wanted \in BOOLEAN
      BY DEF Init
    <2> QED  BY <1>1, <2>1, <2>2, <2>3, <2>4, <2>5 DEF TypeOK
  <1>3. InTime /\ ServesByName
    BY DEF Init, InTime, ServesByName, Starting, BootAssumption
  <1>4. TypedAsListed
    BY DEF Init, Idle, TypedAsListed, Named, NoHeaders
  <1> QED  BY <1>2, <1>3, <1>4 DEF BootInv

\* A step after which the others are where they were, and d neither starts
\* nor serves, or does so in time and by its name.
LEMMA OneMoves ==
    ASSUME BootInv, NEW d \in Daemons,
           \A e \in Daemons \ {d} : UNCHANGED <<pc[e], age[e], nap[e]>>,
           \A e \in Daemons \ {d} : owner = e => owner' = e,
           pc'[d] = "sleep" => age'[d] + nap'[d] <= ChipWait + RetryEach,
           pc'[d] \in Starting => age'[d] <= ChipWait + RetryEach,
           pc'[d] = "serving" => owner' = d
    PROVE  InTime' /\ ServesByName'
  BY DEF BootInv, InTime, ServesByName

LEMMA GoneInv ==
    ASSUME BootInv, NEW d \in Daemons, NEW to \in {"off", "restart"}, NEW wait \in Nat,
           Gone(d, to, wait)
    PROVE  InTime' /\ ServesByName'
  <1>1. pc'[d] = to /\ \A e \in Daemons \ {d} : UNCHANGED <<pc[e], age[e], nap[e]>>
    BY DEF Gone, BootInv, TypeOK
  <1>2. \A e \in Daemons \ {d} : owner = e => owner' = e
    BY DEF Gone
  <1>3. pc'[d] \notin Starting \cup {"serving"}
    BY <1>1 DEF Starting
  <1>4. pc'[d] # "sleep" /\ pc'[d] # "serving"
    BY <1>1
  <1> QED  BY <1>1, <1>2, <1>3, <1>4, OneMoves

LEMMA FailsInv ==
    ASSUME BootAssumption, BootInv, NEW d \in Daemons, Fails(d)
    PROVE  InTime' /\ ServesByName'
  <1>1. RestartSec \in Nat
    BY DEF BootAssumption
  <1> QED  BY <1>1, GoneInv DEF Fails

LEMMA TryAgainInv ==
    ASSUME BootAssumption, BootInv, NEW d \in Daemons, TryAgain(d)
    PROVE  InTime' /\ ServesByName'
  <1>1. CASE Fails(d)
    BY <1>1, FailsInv
  <1>2. CASE ~Fails(d)
    <2>1. /\ age[d] <= ChipWait
          /\ pc' = [pc EXCEPT ![d] = "sleep"]
          /\ nap' = [nap EXCEPT ![d] = RetryEach]
          /\ UNCHANGED <<age, owner>>
      BY <1>2 DEF TryAgain
    <2>2. age[d] \in Nat /\ ChipWait \in Nat /\ RetryEach \in Nat
      BY DEF BootInv, TypeOK, BootAssumption
    <2>3. /\ pc'[d] = "sleep" /\ nap'[d] = RetryEach
          /\ \A e \in Daemons \ {d} : UNCHANGED <<pc[e], age[e], nap[e]>>
      BY <2>1 DEF BootInv, TypeOK
    <2>4. age'[d] + nap'[d] <= ChipWait + RetryEach /\ age'[d] <= ChipWait + RetryEach
      BY <2>1, <2>2, <2>3
    <2>5. pc'[d] # "serving"
      BY <2>3
    <2> QED  BY <2>1, <2>3, <2>4, <2>5, OneMoves
  <1> QED  BY <1>1, <1>2

LEMMA DaemonStepInv ==
    ASSUME BootAssumption, BootInv, NEW d \in Daemons, DaemonSteps(d)
    PROVE  InTime' /\ ServesByName'
  <1>1. ASSUME NEW to \in {"find", "load", "acquire"},
               pc[d] \in Starting,
               pc' = [pc EXCEPT ![d] = to], UNCHANGED <<age, nap, owner>>
        PROVE  InTime' /\ ServesByName'
    <2>1. pc'[d] = to /\ \A e \in Daemons \ {d} : UNCHANGED <<pc[e], age[e], nap[e]>>
      BY <1>1 DEF BootInv, TypeOK
    <2>2. age'[d] <= ChipWait + RetryEach
      BY <1>1 DEF BootInv, InTime
    <2>3. pc'[d] # "sleep" /\ pc'[d] # "serving"
      BY <2>1
    <2> QED  BY <1>1, <2>1, <2>2, <2>3, OneMoves
  <1>2. CASE FindChip(d)
    BY <1>1, <1>2, TryAgainInv DEF FindChip, Starting
  <1>3. CASE Load(d)
    BY <1>1, <1>3, TryAgainInv DEF Load, Starting
  <1>4. CASE Wake(d)
    BY <1>1, <1>4 DEF Wake, Starting
  <1>5. CASE AcquireName(d)
    <2>1. CASE owner = Nobody
      <3>1. /\ pc' = [pc EXCEPT ![d] = "serving"]
            /\ age' = [age EXCEPT ![d] = 0]
            /\ owner' = d /\ UNCHANGED nap
        BY <1>5, <2>1 DEF AcquireName, Serve
      <3>2. pc'[d] = "serving" /\ \A e \in Daemons \ {d} : UNCHANGED <<pc[e], age[e], nap[e]>>
        BY <3>1 DEF BootInv, TypeOK
      <3>3. \A e \in Daemons : owner # e
        BY <2>1 DEF BootAssumption
      <3>4. pc'[d] \notin Starting /\ pc'[d] # "sleep"
        BY <3>2 DEF Starting
      <3> QED  BY <3>1, <3>2, <3>3, <3>4, OneMoves
    <2>2. CASE owner # Nobody
      BY <1>5, <2>2, FailsInv DEF AcquireName
    <2> QED  BY <2>1, <2>2
  <1> QED  BY <1>2, <1>3, <1>4, <1>5 DEF DaemonSteps

LEMMA EnterInv ==
    ASSUME BootAssumption, BootInv, NEW d \in Daemons, Enter(d), UNCHANGED <<nap, owner>>
    PROVE  InTime' /\ ServesByName'
  <1>1. /\ pc'[d] = "find" /\ age'[d] = 0
        /\ \A e \in Daemons \ {d} : UNCHANGED <<pc[e], age[e], nap[e]>>
    BY DEF Enter, BootInv, TypeOK
  <1>2. 0 <= ChipWait + RetryEach
    BY DEF BootAssumption
  <1>3. pc'[d] # "sleep" /\ pc'[d] # "serving"
    BY <1>1
  <1> QED  BY <1>1, <1>2, <1>3, OneMoves

LEMMA TickInv ==
    ASSUME BootAssumption, BootInv, Tick
    PROVE  InTime' /\ ServesByName'
  <1>1. UNCHANGED <<pc, owner>>
    BY DEF Tick
  <1>2. ASSUME NEW d \in Daemons, pc[d] \in Starting
        PROVE  /\ pc[d] = "sleep"
               /\ age'[d] + nap'[d] <= ChipWait + RetryEach
               /\ age'[d] <= ChipWait + RetryEach
    <2>1. pc[d] = "sleep" /\ nap[d] > 0
      BY <1>2 DEF Tick, Starting
    <2>2. age'[d] = age[d] + 1 /\ nap'[d] = nap[d] - 1
      BY <2>1 DEF Tick
    <2>3. age[d] \in Nat /\ nap[d] \in Nat /\ ChipWait \in Nat /\ RetryEach \in Nat
      BY DEF BootInv, TypeOK, BootAssumption
    <2>4. age[d] + nap[d] <= ChipWait + RetryEach
      BY <2>1 DEF BootInv, InTime
    <2> QED  BY <2>1, <2>2, <2>3, <2>4
  <1>3. InTime'
    BY <1>1, <1>2 DEF InTime, Starting
  <1>4. ServesByName'
    BY <1>1 DEF BootInv, ServesByName
  <1> QED  BY <1>3, <1>4

LEMMA TypeNameInv ==
    ASSUME HeadersAssumption, BootAssumption, BootInv,
           NEW d \in Daemons, NEW i \in Fans, TypeName(d, i)
    PROVE  TypedAsListed'
  <1>1. PICK spelled \in BOOLEAN :
           set' = [meant |-> i, told |-> cfg[d],
                   typed |-> [Label(cfg[d], i) EXCEPT !.canonical = spelled]]
    BY DEF TypeName
  <1>2. IsConfig(cfg[d], Nat \ {0})
    BY DEF BootInv, TypeOK
  <1>3. normalizeName(set'.typed) = normalizeName(Label(cfg[d], i))
    BY <1>1, <1>2, LabelIsName, SpellingIgnored
  <1>4. Named(cfg[d], i) => Label(cfg[d], i) = cfg[d][i]
    BY DEF Label
  <1> QED  BY <1>1, <1>3, <1>4 DEF TypedAsListed

LEMMA InvStep ==
    ASSUME HeadersAssumption, BootAssumption, BootInv, [Next]_vars
    PROVE  BootInv'
  <1>1. TypeOK'
    BY TypeStep DEF BootInv
  <1>2. ASSUME UNCHANGED <<pc, age, nap, owner>>
        PROVE  InTime' /\ ServesByName'
    BY <1>2 DEF BootInv, InTime, ServesByName
  <1>3. InTime' /\ ServesByName'
    <2>1. ASSUME NEW d \in Daemons, DaemonSteps(d)
          PROVE  InTime' /\ ServesByName'
      BY <2>1, DaemonStepInv
    <2>2. ASSUME NEW d \in Daemons, Start(d)
          PROVE  InTime' /\ ServesByName'
      BY <2>2, EnterInv DEF Start
    <2>3. ASSUME Restart
          PROVE  InTime' /\ ServesByName'
      BY <2>3, EnterInv DEF Restart, Daemons
    <2>4. ASSUME NEW d \in Daemons, Stop(d) \/ Crash(d)
          PROVE  InTime' /\ ServesByName'
      BY <2>4, GoneInv, FailsInv DEF Stop, Crash
    <2>5. ASSUME \/ DriverChanges \/ Edit \/ Truncate \/ Fill \/ SetByName
                 \/ \E force \in BOOLEAN : InitConfig(force)
                 \/ \E d \in Daemons, i \in Fans : TypeName(d, i)
          PROVE  InTime' /\ ServesByName'
      BY <1>2, <2>5
      DEF DriverChanges, Edit, Truncate, Fill, SetByName, InitConfig, TypeName, daemons
    <2>6. CASE UNCHANGED vars
      BY <1>2, <2>6 DEF vars, daemons
    <2> QED  BY <2>1, <2>2, <2>3, <2>4, <2>5, <2>6, TickInv DEF Next
  <1>4. TypedAsListed'
    <2>1. CASE UNCHANGED set
      BY <2>1 DEF BootInv, TypedAsListed
    <2>2. CASE SetByName
      BY <2>2 DEF SetByName, Idle, TypedAsListed, Named, NoHeaders
    <2>3. ASSUME NEW d \in Daemons, NEW i \in Fans, TypeName(d, i)
          PROVE  TypedAsListed'
      BY <2>3, TypeNameInv
    <2>4. \/ UNCHANGED set \/ SetByName
          \/ \E d \in Daemons, i \in Fans : TypeName(d, i)
      BY DEF Next, vars, DaemonSteps, FindChip, Load, Wake, AcquireName, Start, Stop, Crash,
             Restart, Tick, DriverChanges, Edit, Truncate, Fill, InitConfig, command
    <2> QED  BY <2>1, <2>2, <2>3, <2>4
  <1> QED  BY <1>1, <1>3, <1>4 DEF BootInv

-----------------------------------------------------------------------------
LEMMA BootInvariant == Spec => []BootInv
  <1>1. Init => BootInv
    BY InitInv, HeadersAssumption, BootAssumption
  <1>2. BootInv /\ [Next]_vars => BootInv'
    BY InvStep, HeadersAssumption, BootAssumption
  <1> QED  BY <1>1, <1>2, PTL DEF Spec

\* Every value stays in its type; in particular no daemon holds a map with an
\* index that is not positive, whatever is in headers.yaml.
THEOREM BootTypes == Spec => []TypeOK
  BY BootInvariant, PTL DEF BootInv

\* The start timeout of the unit is never reached, for every wait that is
\* shorter by more than one retry.
THEOREM NoStartTimeout == Spec => []StartTimeoutUnused
  <1>1. BootInv => StartTimeoutUnused
    <2> SUFFICES ASSUME BootInv, pc[Unit] \in Starting
                 PROVE  age[Unit] < StartTimeout
      BY DEF StartTimeoutUnused
    <2>1. Unit \in Daemons
      BY DEF Daemons
    <2>2. age[Unit] \in Nat /\ age[Unit] <= ChipWait + RetryEach
      BY <2>1 DEF BootInv, TypeOK, InTime
    <2> QED  BY <2>2, BootAssumption DEF BootAssumption
  <1> QED  BY <1>1, BootInvariant, PTL

\* At most one daemon serves.
THEOREM OneDaemon == Spec => []OneDaemonServes
  <1>1. BootInv => OneDaemonServes
    BY DEF BootInv, ServesByName, OneDaemonServes
  <1> QED  BY <1>1, BootInvariant, PTL

\* A name off the daemon's list drives the header it is listed for, or none.
THEOREM ListedNamesLeadBack == Spec => NamesLeadBack
  <1>1. BootInv /\ [Next]_vars =>
           [ /\ set # Idle /\ set' = Idle
             /\ Named(set.told, set.meant) /\ Find(file) = set.told
             => driven' \in {set.meant, NoIndex} ]_vars
    <2> SUFFICES ASSUME BootInv, [Next]_vars,
                        set # Idle, set' = Idle,
                        Named(set.told, set.meant), Find(file) = set.told
                 PROVE  driven' \in {set.meant, NoIndex}
      OBVIOUS
    <2>1. SetByName
      BY DEF Next, vars, DaemonSteps, FindChip, Load, Wake, AcquireName, Start, Stop, Crash,
             Restart, Tick, DriverChanges, Edit, Truncate, Fill, InitConfig, TypeName, command
    <2>2. IndexByName(Find(file), set.typed) \in {set.meant, NoIndex}
      BY IndexFaithful DEF BootInv, TypedAsListed, Named
    <2> QED  BY <2>1, <2>2 DEF SetByName
  <1> QED  BY <1>1, BootInvariant, PTL DEF Spec, NamesLeadBack
=============================================================================
