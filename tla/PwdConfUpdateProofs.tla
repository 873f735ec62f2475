------------------------ MODULE PwdConfUpdateProofs -------------------------
(***************************************************************************)
(* Theorems about PwdConfUpdate for any number of loaders, every initial   *)
(* dde.conf and every /etc/os-version.                                     *)
(***************************************************************************)
EXTENDS PwdConfUpdate, TLAPS

(***************************************************************************)
(* Contents                                                                *)
(***************************************************************************)
LEMMA ConfIsConf == \A c : IsConf(c) <=> c \in Conf
  BY DEF IsConf, Conf

LEMMA ConfLoads == \A c : IsConf(c) => Loads(c)
  BY ContentAssumption DEF Loads

LEMMA ContentLoads == \A c : IsContent(c) /\ Loads(c) => IsConf(c)
  BY DEF IsContent, Loads

LEMMA ConfValues ==
  ASSUME NEW c, IsConf(c)
  PROVE  DOMAIN c \subseteq Key /\ c \in [DOMAIN c -> Val]
  BY DEF IsConf

LEMMA EmptyIsConf == IsConf(Empty)
<1>1. Empty \in [{} -> Val]
  BY DEF Empty
<1> QED
  BY <1>1 DEF IsConf

LEMMA OverrideIsConf ==
  ASSUME NEW a, NEW b, IsConf(a), IsConf(b)
  PROVE  IsConf(Override(a, b))
<1> DEFINE D == DOMAIN a \cup DOMAIN b
<1>1. D \in SUBSET Key
  BY ConfValues
<1>2. Override(a, b) \in [D -> Val]
  BY ConfValues DEF Override
<1> QED
  BY <1>1, <1>2 DEF IsConf

LEMMA RestrictIsConf ==
  ASSUME NEW a, IsConf(a), NEW S \in SUBSET DOMAIN a
  PROVE  IsConf([k \in S |-> a[k]])
<1>1. S \in SUBSET Key
  BY ConfValues
<1>2. [k \in S |-> a[k]] \in [S -> Val]
  BY ConfValues
<1> QED
  BY <1>1, <1>2 DEF IsConf

(* What a write leaves is Broken or has entries of the new content and of  *)
(* the old one only.                                                       *)
LEMMA OverlayCases ==
  ASSUME NEW old, IsContent(old), NEW new, NEW x \in Overlay(old, new)
  PROVE  \/ x = Broken
         \/ x = new
         \/ /\ Loads(old)
            /\ \E S \in SUBSET DOMAIN old : x = Override(new, [k \in S |-> old[k]])
  BY DEF Overlay, Loads

LEMMA OverlayIsContent ==
  ASSUME NEW old, IsContent(old), NEW new, IsConf(new), NEW x \in Overlay(old, new)
  PROVE  IsContent(x) /\ x # NoFile
<1>1. CASE x = Broken
  BY <1>1, ContentAssumption DEF IsContent
<1>2. CASE x = new
  BY <1>2, ContentAssumption DEF IsContent
<1>3. CASE /\ Loads(old)
           /\ \E S \in SUBSET DOMAIN old : x = Override(new, [k \in S |-> old[k]])
  BY <1>3, RestrictIsConf, OverrideIsConf, ContentLoads, ContentAssumption DEF IsContent
<1> QED
  BY <1>1, <1>2, <1>3, OverlayCases

(***************************************************************************)
(* Defaults                                                                *)
(***************************************************************************)
LEMMA LibDefaultType == LibDefault \in [Key -> Val]
<1> SUFFICES ASSUME NEW k \in Key PROVE LibDefault[k] \in Val
  BY DEF LibDefault
<1>1. k \in StrengthKeys => Standard[k] \in {2, 3, 6, 8}
  BY DEF StrengthKeys, Standard
<1> QED
  BY <1>1, ValAssumption DEF LibDefault

LEMMA RowType == \A strict \in BOOLEAN : Row(strict) \in [ToolKeys -> Val]
<1> SUFFICES ASSUME NEW strict \in BOOLEAN, NEW k \in ToolKeys
             PROVE  Row(strict)[k] \in Val
  BY DEF Row
<1> QED
  BY ValAssumption DEF Row

LEMMA KnownTypes ==
  ASSUME NEW v, Known(get_current_os_type(v))
  PROVE  get_current_os_type(v) \in {"OS_PROFESSIONAL", "OS_SERVER", "OS_EULER"}
  BY DEF Known, get_current_os_type

LEMMA OsDefaultType == OsKnown => OsDefault \in [ToolKeys -> Val]
<1> SUFFICES ASSUME OsKnown PROVE OsDefault \in [ToolKeys -> Val]
  OBVIOUS
<1> DEFINE types == {"OS_PROFESSIONAL", "OS_SERVER", "OS_EULER", "OS_E", "OS_HOME"}
<1>1. OsType \in types
  BY KnownTypes DEF OsKnown, OsType
<1>2. \A type \in types : default_conf[type] \in [ToolKeys -> Val]
  <2> SUFFICES ASSUME NEW type \in types PROVE default_conf[type] \in [ToolKeys -> Val]
    OBVIOUS
  <2> DEFINE strict == type \in Servers
  <2>1. default_conf[type] = Row(strict)
    BY DEF default_conf
  <2>2. strict \in BOOLEAN
    OBVIOUS
  <2> HIDE DEF strict
  <2> QED
    BY <2>1, <2>2, RowType
<1> HIDE DEF types
<1> QED
  BY <1>1, <1>2 DEF OsDefault

LEMMA AsReadType ==
  ASSUME NEW v \in Val, NEW unreadable \in Val, NEW k
  PROVE  AsRead(k, v, unreadable) \in Val
  BY ValAssumption DEF AsRead

LEMMA OptionsType == \A c : IsConf(c) => Options(c) \in [Key -> Val]
  BY LibDefaultType, ConfValues, AsReadType DEF Options

LEMMA UpdatedIsConf ==
  ASSUME NEW c, IsConf(c), OsKnown
  PROVE  IsConf(Updated(c)) /\ DOMAIN Updated(c) = ToolKeys
<1>1. ToolKeys \in SUBSET Key
  BY DEF ToolKeys
<1>2. Updated(c) \in [ToolKeys -> Val]
  BY OsDefaultType, ConfValues, AsReadType, ValAssumption DEF Updated
<1> QED
  BY <1>1, <1>2 DEF IsConf

LEMMA PoliciesType == \A c : IsContent(c) => Policies(c) \subseteq Val
  BY ContentLoads, ConfValues, GarbageAssumption DEF Policies, Loads

(***************************************************************************)
(* Type correctness                                                        *)
(***************************************************************************)
ToolPc == {"idle", "access", "create", "load", "policy", "open", "write", "done"}

LEMMA PolicyUpdateIsConf ==
  ASSUME NEW c, IsConf(c), NEW p \in Val
  PROVE  IsConf([c EXCEPT ![VALIDATE_POLICY] = p])
<1>1. [c EXCEPT ![VALIDATE_POLICY] = p] \in [DOMAIN c -> Val]
  BY ConfValues
<1>2. DOMAIN c \in SUBSET Key
  BY ConfValues
<1> QED
  BY <1>1, <1>2 DEF IsConf

LEMMA TypeInit == Init => TypeOK
<1> SUFFICES ASSUME Init PROVE TypeOK
  OBVIOUS
<1>1. IsContent(file) /\ IsContent(first) /\ os_version \in OsVersions
  BY InitAssumption DEF Init
<1>2. IsConf(kf) /\ \A t \in Tool : IsConf(dic[t])
  BY EmptyIsConf DEF Init
<1>3. options \in [Loader -> [Key -> Val]]
  BY LibDefaultType DEF Init
<1> QED
  BY <1>1, <1>2, <1>3 DEF Init, TypeOK

LEMMA WatchType ==
  ASSUME moved \in BOOLEAN, apart \in BOOLEAN,
         ChangesFile \/ LoadsToRewrite \/ UNCHANGED watch
  PROVE  moved' \in BOOLEAN /\ apart' \in BOOLEAN
<1>1. CASE ChangesFile
  <2>1. moved' = TRUE \/ moved' = FALSE
    BY <1>1, Zenon DEF ChangesFile
  <2> QED
    BY <1>1, <2>1 DEF ChangesFile
<1>2. CASE LoadsToRewrite
  <2>1. apart' = TRUE \/ apart' = FALSE
    BY <1>2, Zenon DEF LoadsToRewrite
  <2> QED
    BY <1>2, <2>1 DEF LoadsToRewrite
<1>3. CASE UNCHANGED watch
  BY <1>3 DEF watch
<1> QED
  BY <1>1, <1>2, <1>3

(* The loaders do not change the file, the tools not what was read, nor    *)
(* does either touch the setter.                                           *)
LEMMA TypeLoader ==
  ASSUME TypeOK, NEW l \in Loader, Call(l) \/ LoadStep(l)
  PROVE  TypeOK'
<1>1. UNCHANGED <<file, dic, service, once, watch>>
  BY DEF Call, LoadStep, Load, LoadPolicy, Fork, ForkFails, Wait, LoadFails,
         tools, service, history, once
<1>2. /\ pc' \in [Loader -> {"idle", "load", "policy", "wait", "done", "failed"}]
      /\ tool' \in [Tool -> ToolPc]
      /\ retried' \subseteq Loader
      /\ died' \in BOOLEAN
  BY DEF Call, LoadStep, Load, LoadPolicy, Fork, ForkFails, Wait, LoadFails,
         LoaderAt, ToolAt, tools, history, TypeOK, ToolPc
<1>3. options' \in [Loader -> [Key -> Val]]
  <2>1. CASE Load(l)
    BY <2>1, ContentLoads, OptionsType DEF Load, TypeOK
  <2>2. CASE LoadPolicy(l)
    <3>1. PICK p \in Policies(file) :
             options' = [options EXCEPT ![l][VALIDATE_POLICY] = p]
      BY <2>2 DEF LoadPolicy
    <3>2. p \in Val
      BY PoliciesType DEF TypeOK
    <3> QED
      BY <3>1, <3>2 DEF TypeOK
  <2> QED
    BY <2>1, <2>2 DEF Call, LoadStep, Fork, ForkFails, Wait, LoadFails, TypeOK
<1> QED
  BY <1>1, <1>2, <1>3 DEF TypeOK, ToolPc, service, once, watch

LEMMA TypeTool ==
  ASSUME TypeOK, NEW t \in Tool, ToolStep(t) \/ Killed(t),
         tool[t] \notin {"idle", "done"} => OsKnown
  PROVE  TypeOK'
<1>1. UNCHANGED <<loaders, service, once>>
  BY DEF ToolStep, Killed, Access, Create, ToolLoad, ToolPolicy, Open, ToolWrite,
         history
<1>2. tool' \in [Tool -> ToolPc] /\ died' \in BOOLEAN
  BY DEF ToolStep, Killed, Access, Create, ToolLoad, ToolPolicy, Open, ToolWrite,
         ToolAt, history, TypeOK, ToolPc
<1>3. IsContent(file')
  <2>1. CASE ToolWrite(t)
    <3>1. tool[t] = "write" /\ IsConf(Updated(dic[t]))
      BY <2>1, UpdatedIsConf DEF ToolWrite, ToolAt, TypeOK
    <3> QED
      BY <2>1, <3>1, OverlayIsContent DEF ToolWrite, TypeOK, IsContent
  <2> QED
    BY <2>1, EmptyIsConf
       DEF ToolStep, Killed, Access, Create, ToolLoad, ToolPolicy, Open, TypeOK, IsContent
<1>4. DOMAIN dic' = Tool /\ \A u \in Tool : IsConf(dic'[u])
  <2>1. CASE ToolLoad(t)
    BY <2>1, ContentLoads DEF ToolLoad, TypeOK
  <2>2. CASE ToolPolicy(t)
    <3>1. PICK p \in Policies(file) : dic' = [dic EXCEPT ![t][VALIDATE_POLICY] = p]
      BY <2>2 DEF ToolPolicy
    <3>2. p \in Val
      BY PoliciesType DEF TypeOK
    <3>3. IsConf([dic[t] EXCEPT ![VALIDATE_POLICY] = p])
      BY <3>2, PolicyUpdateIsConf DEF TypeOK
    <3> QED
      BY <3>1, <3>3 DEF TypeOK
  <2> QED
    BY <2>1, <2>2 DEF ToolStep, Killed, Access, Create, Open, ToolWrite, TypeOK
<1>5. ChangesFile \/ LoadsToRewrite \/ UNCHANGED watch
  BY DEF ToolStep, Killed, Access, Create, ToolLoad, ToolPolicy, Open, ToolWrite
<1> QED
  BY <1>1, <1>2, <1>3, <1>4, <1>5, WatchType DEF TypeOK, ToolPc, loaders, service, once

LEMMA TypeSetter ==
  ASSUME TypeOK, SetterLoad \/ SetterTruncate \/ SetterWrite
  PROVE  TypeOK'
<1>1. UNCHANGED <<loaders, tools, history>> /\ moved' \in BOOLEAN /\ apart' \in BOOLEAN
  BY WatchType DEF SetterLoad, SetterTruncate, SetterWrite, TypeOK
<1>2. CASE SetterLoad
  BY <1>1, <1>2, OverrideIsConf, ContentLoads, SetterAssumption
     DEF SetterLoad, TypeOK, loaders, tools, history, once
<1>3. CASE SetterTruncate
  BY <1>1, <1>3, EmptyIsConf
     DEF SetterTruncate, TypeOK, IsContent, loaders, tools, history, once
<1>4. CASE SetterWrite
  BY <1>1, <1>4, OverlayIsContent
     DEF SetterWrite, TypeOK, loaders, tools, history, once
<1> QED
  BY <1>2, <1>3, <1>4

(***************************************************************************)
(* Who waits for whom                                                      *)
(***************************************************************************)
(* A tool is at work only where it knows the system, a tool started by a   *)
(* loader only while that loader waits, and only in its second attempt is  *)
(* a loader's tool over, unless it never started.                          *)
Waiting ==
    /\ \A t \in Tool : tool[t] \notin {"idle", "done"} => OsKnown
    /\ \A l \in Loader : /\ tool[l] \notin {"idle", "done"} => pc[l] = "wait"
                         /\ tool[l] # "idle" => l \in retried
                         /\ l \in retried => pc[l] # "idle"
                         /\ pc[l] = "wait" => tool[l] # "idle"
                         /\ l \in retried /\ ~died => tool[l] # "idle"

LEMMA WaitingInit == Init => Waiting
  BY DEF Init, Waiting, Tool

LEMMA SystemStays == ASSUME UNCHANGED once PROVE UNCHANGED <<OsType, OsKnown, OsDefault>>
  BY DEF once, OsType, OsKnown, OsDefault

LEMMA OnceStays == [Next]_vars => UNCHANGED once
  BY DEF Next, Call, LoadStep, Load, LoadPolicy, Fork, ForkFails, Wait, LoadFails,
         Upgrade, ToolStep, Killed, Access, Create, ToolLoad, ToolPolicy, Open, ToolWrite,
         SetterLoad, SetterTruncate, SetterWrite, vars, history

LEMMA WaitingNext == TypeOK /\ Waiting /\ [Next]_vars => Waiting'
<1> SUFFICES ASSUME TypeOK, Waiting, [Next]_vars PROVE Waiting'
  OBVIOUS
<1>1. UNCHANGED OsKnown
  BY OnceStays, SystemStays
<1>a. Postinst \notin Loader /\ Tool = Loader \cup {Postinst}
  BY ProcessAssumption DEF Tool
<1>2. ASSUME NEW l \in Loader, Call(l) \/ LoadStep(l) PROVE Waiting'
  BY <1>1, <1>2, <1>a
     DEF Call, LoadStep, Load, LoadPolicy, Fork, ForkFails, Wait, LoadFails,
         LoaderAt, ToolAt, tools, loaders, history, TypeOK, Waiting
<1>3. CASE Upgrade
  BY <1>1, <1>3, <1>a DEF Upgrade, ToolAt, loaders, history, TypeOK, Waiting
<1>4. ASSUME NEW t \in Tool, ToolStep(t) \/ Killed(t) PROVE Waiting'
  BY <1>1, <1>4, <1>a
     DEF ToolStep, Killed, Access, Create, ToolLoad, ToolPolicy, Open, ToolWrite,
         ToolAt, loaders, history, TypeOK, Waiting
<1>5. CASE SetterLoad \/ SetterTruncate \/ SetterWrite
  BY <1>1, <1>5 DEF SetterLoad, SetterTruncate, SetterWrite, loaders, tools, history, Waiting
<1>6. CASE UNCHANGED vars
  BY <1>1, <1>6 DEF vars, loaders, tools, history, Waiting
<1> QED
  BY <1>2, <1>3, <1>4, <1>5, <1>6 DEF Next

LEMMA TypeNext == TypeOK /\ Waiting /\ [Next]_vars => TypeOK'
<1> SUFFICES ASSUME TypeOK, Waiting, [Next]_vars PROVE TypeOK'
  OBVIOUS
<1>1. CASE \E l \in Loader : Call(l) \/ LoadStep(l)
  BY <1>1, TypeLoader
<1>2. CASE Upgrade
  BY <1>2 DEF Upgrade, ToolAt, TypeOK, ToolPc, Tool, loaders, service, history, once, watch
<1>3. CASE \E t \in Tool : ToolStep(t) \/ Killed(t)
  BY <1>3, TypeTool DEF Waiting
<1>4. CASE SetterLoad \/ SetterTruncate \/ SetterWrite
  BY <1>4, TypeSetter
<1>5. CASE UNCHANGED vars
  BY <1>5 DEF vars, TypeOK, loaders, tools, service, history, once, watch
<1> QED
  BY <1>1, <1>2, <1>3, <1>4, <1>5 DEF Next

LEMMA Invariance == Spec => [](TypeOK /\ Waiting)
<1>1. Init => TypeOK /\ Waiting
  BY TypeInit, WaitingInit
<1>2. TypeOK /\ Waiting /\ [Next]_vars => (TypeOK /\ Waiting)'
  BY TypeNext, WaitingNext
<1> QED
  BY <1>1, <1>2, PTL DEF Spec

(* Every dde.conf that any step leaves, every option a check has read and  *)
(* every configuration a tool or the setter is about to write is well      *)
(* formed, whatever races and dies (load_pwd_conf, update_conf).           *)
THEOREM TypesCorrect == Spec => []TypeOK
  BY Invariance, PTL

(***************************************************************************)
(* Where options come from                                                 *)
(***************************************************************************)
(* Somebody turned the check off, or wrote a switch that cannot be read.   *)
TurnedOff ==
    \E c \in {SetterArg} \cup ({first} \ {NoFile, Broken}) :
        /\ STRONG_PASSWORD \in DOMAIN c
        /\ c[STRONG_PASSWORD] \in Malformed \cup {No}

(* The entries of c have a source, and its switch is off for a reason.     *)
Sourced(c) ==
    /\ \A k \in DOMAIN c : k # VALIDATE_POLICY \/ ~moved => c[k] \in Sources(k)
    /\ STRONG_PASSWORD \in DOMAIN c /\ c[STRONG_PASSWORD] \in Malformed \cup {No}
          => TurnedOff

SourceInv ==
    /\ Loads(file) => Sourced(file)
    /\ \A t \in Tool : Sourced(dic[t])
    /\ Sourced(kf)
    /\ \A l \in Loader :
          /\ \A k \in Key :
                k # VALIDATE_POLICY \/ ~moved => options[l][k] \in Sources(k)
          /\ options[l][STRONG_PASSWORD] = No => TurnedOff

LEMMA SourcesStay ==
  ASSUME UNCHANGED once, moved => moved'
  PROVE  /\ TurnedOff' = TurnedOff
         /\ \A k : Sources(k)' = Sources(k)
         /\ \A c : Sourced(c) => Sourced(c)'
<1>1. UNCHANGED <<OsKnown, OsDefault>> /\ UNCHANGED first
  BY SystemStays DEF once
<1>2. TurnedOff' = TurnedOff
  BY <1>1 DEF TurnedOff
<1>3. \A k : Sources(k)' = Sources(k)
  BY <1>1 DEF Sources
<1> QED
  BY <1>2, <1>3 DEF Sourced

(* The switch of the whole check is none of the other keys.                *)
LEMMA OtherSwitch ==
  /\ STRONG_PASSWORD \in Key /\ STRONG_PASSWORD \in ToolKeys \cap BoolKeys
  /\ STRONG_PASSWORD \notin {FIRST_LETTER_UPPERCASE, PASSWORD_MIN_LENGTH,
                             PASSWORD_MAX_LENGTH, VALIDATE_POLICY, VALIDATE_REQUIRED,
                             DICT_PATH, "PALINDROME_NUM", "WORD_CHECK"}
  /\ STRONG_PASSWORD \notin StrengthKeys
<1>1. STRONG_PASSWORD \in Key \cap BoolKeys
  BY DEF Key, ServiceKeys, BoolKeys
<1>2. STRONG_PASSWORD \notin StrengthKeys
  BY DEF StrengthKeys, Standard, STRONG_PASSWORD
<1>3. STRONG_PASSWORD \notin {FIRST_LETTER_UPPERCASE, PASSWORD_MIN_LENGTH,
                              PASSWORD_MAX_LENGTH, VALIDATE_POLICY, VALIDATE_REQUIRED,
                              DICT_PATH, "PALINDROME_NUM", "WORD_CHECK"}
  BY DEF STRONG_PASSWORD, FIRST_LETTER_UPPERCASE, PASSWORD_MIN_LENGTH,
         PASSWORD_MAX_LENGTH, VALIDATE_POLICY, VALIDATE_REQUIRED, DICT_PATH
<1> QED
  BY <1>1, <1>2, <1>3 DEF ToolKeys

LEMMA LibDefaultSourced ==
  /\ \A k \in Key : LibDefault[k] \in Sources(k)
  /\ LibDefault[STRONG_PASSWORD] = Yes
<1>1. STRONG_PASSWORD \in Key
  BY DEF Key, ServiceKeys
<1>2. LibDefault[STRONG_PASSWORD] = Yes
  BY <1>1, OtherSwitch DEF LibDefault
<1> QED
  BY <1>2 DEF Sources

LEMMA EmptySourced == Sourced(Empty)
  BY DEF Sourced, Empty

(* What somebody configured has a source.                                  *)
LEMMA ConfiguredIsSourced ==
  ASSUME NEW c \in {SetterArg} \cup ({first} \ {NoFile, Broken})
  PROVE  Sourced(c)
  BY DEF Sourced, TurnedOff, Sources

LEMMA OverrideSourced ==
  ASSUME NEW a, NEW b, Sourced(a), Sourced(b) PROVE Sourced(Override(a, b))
  BY DEF Sourced, Override

LEMMA RestrictSourced ==
  ASSUME NEW a, Sourced(a), NEW S \in SUBSET DOMAIN a
  PROVE  Sourced([k \in S |-> a[k]])
  BY DEF Sourced

LEMMA OverlaySourced ==
  ASSUME NEW old, IsContent(old), Loads(old) => Sourced(old),
         NEW new, Sourced(new), NEW x \in Overlay(old, new), Loads(x)
  PROVE  Sourced(x)
<1>1. CASE x = Broken
  BY <1>1 DEF Loads
<1>2. CASE x = new
  BY <1>2
<1>3. ASSUME Loads(old), NEW S \in SUBSET DOMAIN old,
             x = Override(new, [k \in S |-> old[k]])
      PROVE  Sourced(x)
  <2>1. Sourced([k \in S |-> old[k]])
    BY <1>3, RestrictSourced
  <2> QED
    BY <2>1, <1>3, OverrideSourced
<1> QED
  BY <1>1, <1>2, <1>3, OverlayCases

(* Every default of the library and of the tool can be read.               *)
LEMMA DefaultsReadable ==
  /\ \A k \in Key \ TextKeys : LibDefault[k] \notin Malformed
  /\ OsKnown => \A k \in ToolKeys \ TextKeys : OsDefault[k] \notin Malformed
<1>1. ASSUME NEW k \in Key \ TextKeys PROVE LibDefault[k] \notin Malformed
  <2>1. CASE k \in StrengthKeys
    <3>1. Standard[k] \in {2, 3, 6, 8}
      BY <2>1 DEF StrengthKeys, Standard
    <3>2. k \notin BoolKeys \cup {PASSWORD_MIN_LENGTH, PASSWORD_MAX_LENGTH, VALIDATE_REQUIRED}
      BY <2>1 DEF StrengthKeys, Standard, BoolKeys, STRONG_PASSWORD, FIRST_LETTER_UPPERCASE,
                  PASSWORD_MIN_LENGTH, PASSWORD_MAX_LENGTH, VALIDATE_REQUIRED
    <3>3. LibDefault[k] = Standard[k]
      BY <1>1, <2>1, <3>2 DEF LibDefault, TextKeys, BoolKeys
    <3> QED
      BY <3>1, <3>3, ValAssumption
  <2>2. CASE k \notin StrengthKeys
    <3>1. LibDefault[k] \in {Yes, No, 0, 1, 512}
      BY <1>1, <2>2 DEF LibDefault, TextKeys
    <3> QED
      BY <3>1, ValAssumption
  <2> QED
    BY <2>1, <2>2
<1>2. ASSUME NEW strict \in BOOLEAN, NEW k \in ToolKeys \ TextKeys
      PROVE  Row(strict)[k] \notin Malformed
  <2>1. Row(strict)[k] \in {Yes, No, 0, 1, 3, 4, 8, 510}
    BY <1>2 DEF Row, TextKeys
  <2> QED
    BY <2>1, ValAssumption
<1>3. ASSUME NEW type \in {"OS_PROFESSIONAL", "OS_SERVER", "OS_EULER"},
             NEW k \in ToolKeys \ TextKeys
      PROVE  default_conf[type][k] \notin Malformed
  <2> DEFINE strict == type \in Servers
  <2>1. default_conf[type] = Row(strict) /\ strict \in BOOLEAN
    BY DEF default_conf
  <2> HIDE DEF strict
  <2> QED
    BY <1>2, <2>1
<1> QED
  BY <1>1, <1>3, KnownTypes DEF OsKnown, OsType, OsDefault

(* What is read of a sourced entry has a source, too.                      *)
LEMMA AsReadSourced ==
  ASSUME NEW c, Sourced(c), NEW k \in Key \cap DOMAIN c, k # VALIDATE_POLICY \/ ~moved
  PROVE  AsRead(k, c[k], No) \in Sources(k)
<1>1. c[k] \in Sources(k)
  BY DEF Sourced
<1>2. CASE c[k] \notin Malformed \/ k \in TextKeys
  BY <1>1, <1>2 DEF AsRead
<1>3. CASE c[k] \in Malformed /\ k \notin TextKeys
  <2>1. \A v : AsRead(k, v, No) \notin Malformed
    BY <1>3, ValAssumption DEF AsRead
  <2>2. c[k] # LibDefault[k]
    BY <1>3, DefaultsReadable
  <2>3. ~(OsKnown /\ k \in ToolKeys /\ c[k] = OsDefault[k])
    BY <1>3, DefaultsReadable
  <2>4. PICK b \in {SetterArg} \cup ({first} \ {NoFile, Broken}) :
           k \in DOMAIN b /\ (c[k] = b[k] \/ c[k] = AsRead(k, b[k], No))
    BY <1>1, <2>2, <2>3 DEF Sources
  <2>5. c[k] = b[k]
    BY <1>3, <2>1, <2>4
  <2> QED
    BY <2>4, <2>5 DEF Sources
<1> QED
  BY <1>2, <1>3

LEMMA OptionsSourced ==
  ASSUME NEW c, Sourced(c)
  PROVE  /\ \A k \in Key : k # VALIDATE_POLICY \/ ~moved => Options(c)[k] \in Sources(k)
         /\ Options(c)[STRONG_PASSWORD] = No => TurnedOff
<1>1. ASSUME NEW k \in Key, k # VALIDATE_POLICY \/ ~moved
      PROVE  Options(c)[k] \in Sources(k)
  <2>1. CASE k \notin DOMAIN c
    BY <2>1, LibDefaultSourced DEF Options
  <2>2. CASE k \in DOMAIN c
    <3>1. \/ AsRead(k, c[k], LibDefault[k]) = LibDefault[k]
          \/ AsRead(k, c[k], LibDefault[k]) = AsRead(k, c[k], No)
      BY DEF AsRead
    <3>2. Options(c)[k] = AsRead(k, c[k], LibDefault[k])
      BY <2>2 DEF Options
    <3> QED
      BY <1>1, <2>2, <3>1, <3>2, LibDefaultSourced, AsReadSourced
  <2> QED
    BY <2>1, <2>2
<1>2. STRONG_PASSWORD \in Key /\ STRONG_PASSWORD \in BoolKeys
  BY DEF Key, ServiceKeys, BoolKeys
<1>3. Options(c)[STRONG_PASSWORD] = No => TurnedOff
  BY <1>2, LibDefaultSourced, ValAssumption DEF Options, Sourced, AsRead
<1> QED
  BY <1>1, <1>3

LEMMA OsDefaultStrong == OsKnown => OsDefault[STRONG_PASSWORD] = Yes
<1>1. ASSUME NEW type \in {"OS_PROFESSIONAL", "OS_SERVER", "OS_EULER"}
      PROVE  default_conf[type][STRONG_PASSWORD] = Yes
  BY OtherSwitch DEF default_conf, Row
<1> QED
  BY <1>1, KnownTypes DEF OsKnown, OsType, OsDefault

LEMMA UpdatedSourced ==
  ASSUME NEW c, IsConf(c), Sourced(c), OsKnown
  PROVE  Sourced(Updated(c))
<1> DEFINE u == Updated(c)
<1>1. DOMAIN u = ToolKeys
  BY DEF Updated
<1>2. ASSUME NEW k \in ToolKeys, k # VALIDATE_POLICY \/ ~moved
      PROVE  u[k] \in Sources(k)
  <2>1. CASE k \notin DOMAIN c
    BY <2>1 DEF Updated, Sources
  <2>2. CASE k \in DOMAIN c
    <3>1. u[k] = AsRead(k, c[k], No) /\ k \in Key
      BY <2>2 DEF Updated, ToolKeys
    <3> QED
      BY <1>2, <3>1, <2>2, AsReadSourced
  <2> QED
    BY <2>1, <2>2
<1>3. ASSUME u[STRONG_PASSWORD] \in Malformed \cup {No} PROVE TurnedOff
  <2>1. CASE STRONG_PASSWORD \notin DOMAIN c
    BY <1>3, <2>1, OsDefaultStrong, OtherSwitch, ValAssumption DEF Updated
  <2>2. CASE STRONG_PASSWORD \in DOMAIN c /\ c[STRONG_PASSWORD] \in Malformed
    BY <2>2 DEF Sourced
  <2>3. CASE STRONG_PASSWORD \in DOMAIN c /\ c[STRONG_PASSWORD] \notin Malformed
    <3>1. u[STRONG_PASSWORD] = c[STRONG_PASSWORD]
      BY <2>3, OtherSwitch DEF Updated, AsRead
    <3> QED
      BY <1>3, <2>3, <3>1 DEF Sourced
  <2> QED
    BY <2>1, <2>2, <2>3
<1> HIDE DEF u
<1>4. Sourced(u)
  BY <1>1, <1>2, <1>3 DEF Sourced
<1> QED
  BY <1>4 DEF u

LEMMA SourceInit == Init => SourceInv
<1> SUFFICES ASSUME Init PROVE SourceInv
  OBVIOUS
<1>1. Loads(file) => Sourced(file)
  BY ConfiguredIsSourced DEF Init, Loads
<1>2. Sourced(kf) /\ \A t \in Tool : Sourced(dic[t])
  BY EmptySourced DEF Init
<1>3. \A l \in Loader : options[l] = LibDefault
  BY DEF Init
<1> QED
  BY <1>1, <1>2, <1>3, LibDefaultSourced, ValAssumption DEF SourceInv

(* As long as the file has not changed between two openings, the second    *)
(* one finds the policy.                                                   *)
Policed ==
    ~moved =>
        /\ \A l \in Loader : pc[l] = "policy" => Loads(file) /\ VALIDATE_POLICY \in DOMAIN file
        /\ \A t \in Tool : tool[t] = "policy" => Loads(file) /\ VALIDATE_POLICY \in DOMAIN file

(* The history remembers.                                                  *)
LEMMA MovedStays ==
  [Next]_vars =>
      \/ UNCHANGED <<file, moved>>
      \/ /\ moved' = (moved \/ (file' # file /\ BetweenOpens))
         /\ UNCHANGED pc
         /\ \E t \in Tool :
               \/ ToolAt(t, "create", "load") \/ ToolAt(t, "create", "done")
               \/ ToolAt(t, "open", "write") \/ ToolAt(t, "open", "done")
               \/ ToolAt(t, "write", "done")
               \/ UNCHANGED tool
  BY ProcessAssumption
     DEF Next, Call, LoadStep, Load, LoadPolicy, Fork, ForkFails, Wait, LoadFails,
         Upgrade, ToolStep, Killed, Access, Create, ToolLoad, ToolPolicy, Open, ToolWrite,
         SetterLoad, SetterTruncate, SetterWrite, vars, watch, loaders, tools,
         ChangesFile, LoadsToRewrite, Tool, ToolAt

LEMMA PolicedNext == TypeOK /\ Policed /\ [Next]_vars => Policed'
<1> SUFFICES ASSUME TypeOK, Policed, [Next]_vars, ~moved' PROVE Policed'
  BY DEF Policed
<1>1. CASE UNCHANGED <<file, moved>>
  <2>1. ASSUME NEW l \in Loader, pc'[l] = "policy", pc[l] # "policy"
        PROVE  Loads(file) /\ VALIDATE_POLICY \in DOMAIN file
    BY <2>1 DEF Next, Call, LoadStep, Load, LoadPolicy, Fork, ForkFails, Wait, LoadFails,
         LoaderAt, Upgrade, ToolStep, Killed, Access, Create, ToolLoad, ToolPolicy, Open,
         ToolWrite, SetterLoad, SetterTruncate, SetterWrite, vars, loaders, TypeOK
  <2>2. ASSUME NEW t \in Tool, tool'[t] = "policy", tool[t] # "policy"
        PROVE  Loads(file) /\ VALIDATE_POLICY \in DOMAIN file
    BY <2>2 DEF Next, Call, LoadStep, Load, LoadPolicy, Fork, ForkFails, Wait, LoadFails,
         ToolAt, Upgrade, ToolStep, Killed, Access, Create, ToolLoad, ToolPolicy, Open,
         ToolWrite, SetterLoad, SetterTruncate, SetterWrite, vars, tools, TypeOK
  <2> QED
    BY <1>1, <2>1, <2>2 DEF Policed
<1>2. CASE ~UNCHANGED <<file, moved>>
  <2>1. /\ moved' = (moved \/ (file' # file /\ BetweenOpens))
        /\ UNCHANGED pc
        /\ \A t \in Tool : tool'[t] = "policy" => tool[t] = "policy"
    BY <1>2, MovedStays DEF ToolAt, TypeOK
  <2>2. ~moved /\ file' # file /\ ~BetweenOpens
    BY <1>2, <2>1 DEF TypeOK
  <2> QED
    BY <2>1, <2>2 DEF BetweenOpens, Policed
<1> QED
  BY <1>1, <1>2

LEMMA SourceNext == TypeOK /\ Waiting /\ Policed /\ SourceInv /\ [Next]_vars => SourceInv'
<1> SUFFICES ASSUME TypeOK, Waiting, Policed, SourceInv, [Next]_vars PROVE SourceInv'
  OBVIOUS
<1>0. moved => moved'
  BY MovedStays
<1>1. /\ TurnedOff' = TurnedOff
      /\ \A k : Sources(k)' = Sources(k)
      /\ \A c : Sourced(c) => Sourced(c)'
  BY <1>0, OnceStays, SourcesStay
<1> DEFINE OptionsOK(o) == /\ \A k \in Key : k # VALIDATE_POLICY \/ ~moved => o[k] \in Sources(k)
                           /\ o[STRONG_PASSWORD] = No => TurnedOff
(* It is enough to follow the four places that hold entries.               *)
<1>2. ASSUME Loads(file') => Sourced(file'), Sourced(kf'),
             \A t \in Tool : Sourced(dic'[t]),
             \A l \in Loader : OptionsOK(options'[l])
      PROVE  SourceInv'
  BY <1>0, <1>1, <1>2 DEF SourceInv
<1>3. /\ Loads(file) => Sourced(file) /\ Sourced(kf)
      /\ \A t \in Tool : Sourced(dic[t])
      /\ \A l \in Loader : OptionsOK(options[l])
  BY DEF SourceInv
<1>4. Sourced(kf)
  BY DEF SourceInv
<1> HIDE DEF OptionsOK
<1>5. ASSUME NEW l \in Loader, Call(l) \/ LoadStep(l) PROVE SourceInv'
  <2>1. UNCHANGED <<file, dic, kf>>
    BY <1>5 DEF Call, LoadStep, Load, LoadPolicy, Fork, ForkFails, Wait, LoadFails,
                tools, service
  <2>2. CASE Load(l)
    <3>1. OptionsOK(Options(file))
      BY <2>2, <1>3, OptionsSourced DEF Load, OptionsOK
    <3>2. \A j \in Loader : options'[j] = IF j = l THEN Options(file) ELSE options[j]
      BY <2>2 DEF Load, TypeOK
    <3>3. \A j \in Loader : OptionsOK(options'[j])
      BY <3>1, <3>2, <1>3
    <3> QED
      BY <2>1, <3>3, <1>2, <1>3, <1>4
  <2>3. CASE LoadPolicy(l)
    <3>1. PICK p \in Policies(file) : options' = [options EXCEPT ![l][VALIDATE_POLICY] = p]
      BY <2>3 DEF LoadPolicy
    <3>2. \A j \in Loader : \A k \in Key \ {VALIDATE_POLICY} : options'[j][k] = options[j][k]
      BY <3>1 DEF TypeOK
    <3>3. STRONG_PASSWORD \in Key \ {VALIDATE_POLICY} /\ VALIDATE_POLICY \in Key
      BY OtherSwitch DEF Key, ServiceKeys
    <3>4. ~moved => p \in Sources(VALIDATE_POLICY)
      BY <2>3, <1>3 DEF LoadPolicy, LoaderAt, Policed, Policies, Loads, Sourced
    <3>5. \A j \in Loader : \/ options'[j][VALIDATE_POLICY] = p
                            \/ options'[j][VALIDATE_POLICY] = options[j][VALIDATE_POLICY]
      BY <3>1, <3>3 DEF TypeOK
    <3>6. \A j \in Loader : OptionsOK(options'[j])
      BY <3>2, <3>3, <3>4, <3>5, <1>3 DEF OptionsOK
    <3> QED
      BY <2>1, <3>6, <1>2, <1>3, <1>4
  <2>4. CASE Call(l) \/ Fork(l) \/ ForkFails(l) \/ Wait(l) \/ LoadFails(l)
    <3>1. UNCHANGED options
      BY <2>4 DEF Call, Fork, ForkFails, Wait, LoadFails
    <3> QED
      BY <2>1, <3>1, <1>2, <1>3, <1>4
  <2> QED
    BY <1>5, <2>2, <2>3, <2>4 DEF LoadStep
<1>6. CASE Upgrade
  BY <1>6, <1>2, <1>3, <1>4 DEF Upgrade, loaders, service
<1>7. ASSUME NEW t \in Tool, ToolStep(t) \/ Killed(t) PROVE SourceInv'
  <2>1. UNCHANGED <<options, kf>>
    BY <1>7 DEF ToolStep, Killed, Access, Create, ToolLoad, ToolPolicy, Open, ToolWrite,
                loaders, service
  <2>2. Loads(file') => Sourced(file')
    <3>1. CASE ToolWrite(t)
      <4>1. OsKnown /\ IsConf(dic[t]) /\ Sourced(dic[t])
        BY <3>1, <1>3 DEF ToolWrite, ToolAt, Waiting, TypeOK
      <4>2. Sourced(Updated(dic[t]))
        BY <4>1, UpdatedSourced
      <4>3. file' \in Overlay(file, Updated(dic[t])) \/ file' = Broken
        BY <3>1 DEF ToolWrite
      <4> QED
        BY <4>2, <4>3, <1>3, OverlaySourced DEF TypeOK, Loads
    <3>2. CASE ~ToolWrite(t)
      BY <3>2, <1>7, <1>3, EmptySourced
         DEF ToolStep, Killed, Access, Create, ToolLoad, ToolPolicy, Open
    <3> QED
      BY <3>1, <3>2
  <2>3. \A u \in Tool : Sourced(dic'[u])
    <3>1. CASE ToolLoad(t)
      BY <3>1, <1>3 DEF ToolLoad, TypeOK
    <3>2. CASE ToolPolicy(t)
      <4>1. PICK p \in Policies(file) : dic' = [dic EXCEPT ![t][VALIDATE_POLICY] = p]
        BY <3>2 DEF ToolPolicy
      <4>a. ~moved => p \in Sources(VALIDATE_POLICY)
        BY <3>2, <1>3 DEF ToolPolicy, ToolAt, Policed, Policies, Loads, Sourced
      <4>2. Sourced([dic[t] EXCEPT ![VALIDATE_POLICY] = p])
        BY <1>3, <4>a, OtherSwitch, ConfValues DEF Sourced, TypeOK
      <4> QED
        BY <4>1, <4>2, <1>3 DEF TypeOK
    <3>3. CASE ~ToolLoad(t) /\ ~ToolPolicy(t)
      BY <3>3, <1>7, <1>3 DEF ToolStep, Killed, Access, Create, Open, ToolWrite
    <3> QED
      BY <3>1, <3>2, <3>3
  <2> QED
    BY <2>1, <2>2, <2>3, <1>2, <1>3, <1>4
<1>8. CASE SetterLoad \/ SetterTruncate \/ SetterWrite
  <2>1. UNCHANGED <<options, dic>>
    BY <1>8 DEF SetterLoad, SetterTruncate, SetterWrite, loaders, tools
  <2>2. Sourced(kf')
    BY <1>8, <1>3, <1>4, ConfiguredIsSourced, OverrideSourced
       DEF SetterLoad, SetterTruncate, SetterWrite
  <2>3. Loads(file') => Sourced(file')
    BY <1>8, <1>3, <1>4, EmptySourced, OverlaySourced
       DEF SetterLoad, SetterTruncate, SetterWrite, TypeOK
  <2> QED
    BY <2>1, <2>2, <2>3, <1>2, <1>3
<1>9. CASE UNCHANGED vars
  BY <1>9, <1>2, <1>3, <1>4 DEF vars, loaders, tools, service
<1> QED
  BY <1>5, <1>6, <1>7, <1>8, <1>9 DEF Next

(* Before a tool has rewritten the file, a switch that nobody turned off   *)
(* is nowhere off.                                                         *)
Off(c) == STRONG_PASSWORD \in DOMAIN c /\ c[STRONG_PASSWORD] = No

NowhereOff ==
    /\ Loads(file) => ~Off(file)
    /\ ~Off(kf)
    /\ \A t \in Tool : ~Off(dic[t])
    /\ \A l \in Loader : options[l][STRONG_PASSWORD] # No

SwitchInv ==
    /\ \A t \in Tool : tool[t] = "write" => MayWrite(t)
    /\ ~Rewritten /\ ~Configured(STRONG_PASSWORD, {No}) => NowhereOff

LEMMA SwitchInit == Init => SwitchInv
<1> SUFFICES ASSUME Init, ~Configured(STRONG_PASSWORD, {No}) PROVE NowhereOff
  BY DEF Init, SwitchInv
<1>1. \A l \in Loader : options[l][STRONG_PASSWORD] = Yes
  BY LibDefaultSourced DEF Init
<1> QED
  BY <1>1, ValAssumption DEF Init, NowhereOff, Off, Empty, Configured, Loads

LEMMA SwitchNext == TypeOK /\ Waiting /\ SwitchInv /\ [Next]_vars => SwitchInv'
<1> SUFFICES ASSUME TypeOK, Waiting, SwitchInv, [Next]_vars PROVE SwitchInv'
  OBVIOUS
<1>1. \A t \in Tool : /\ tool[t] = "done" => tool'[t] = "done"
                      /\ tool'[t] = "write" => MayWrite(t)
  <2> USE ProcessAssumption DEF Tool
  <2> QED
    BY DEF Next, Call, LoadStep, Load, LoadPolicy, Fork, ForkFails, Wait, LoadFails,
         ToolAt, Upgrade, ToolStep, Killed, Access, Create, ToolLoad, ToolPolicy, Open,
         ToolWrite, SetterLoad, SetterTruncate, SetterWrite, vars, tools, TypeOK, SwitchInv
<1>2. Configured(STRONG_PASSWORD, {No})' <=> Configured(STRONG_PASSWORD, {No})
  BY OnceStays DEF Configured, once
<1> SUFFICES ASSUME ~Rewritten', ~Configured(STRONG_PASSWORD, {No}) PROVE NowhereOff'
  BY <1>1, <1>2 DEF SwitchInv, MayWrite
<1>3. ~Rewritten /\ NowhereOff
  BY <1>1 DEF Rewritten, MayWrite, SwitchInv
<1>4. STRONG_PASSWORD \in Key \cap BoolKeys /\ STRONG_PASSWORD # VALIDATE_POLICY
      /\ STRONG_PASSWORD \notin TextKeys
  BY OtherSwitch DEF TextKeys
<1>5. ASSUME NEW l \in Loader, Call(l) \/ LoadStep(l) PROVE NowhereOff'
  <2>1. UNCHANGED <<file, dic, kf>>
    BY <1>5 DEF Call, LoadStep, Load, LoadPolicy, Fork, ForkFails, Wait, LoadFails,
                tools, service
  <2>2. \A j \in Loader : options'[j][STRONG_PASSWORD] # No
    <3>1. CASE Load(l)
      <4>1. Options(file)[STRONG_PASSWORD] # No
        BY <3>1, <1>3, <1>4, LibDefaultSourced, ValAssumption
           DEF Load, Options, AsRead, NowhereOff, Off
      <4> QED
        BY <3>1, <4>1, <1>3 DEF Load, TypeOK, NowhereOff
    <3>2. CASE LoadPolicy(l)
      BY <3>2, <1>3, <1>4 DEF LoadPolicy, TypeOK, NowhereOff
    <3>3. CASE Call(l) \/ Fork(l) \/ ForkFails(l) \/ Wait(l) \/ LoadFails(l)
      BY <3>3, <1>3 DEF Call, Fork, ForkFails, Wait, LoadFails, NowhereOff
    <3> QED
      BY <1>5, <3>1, <3>2, <3>3 DEF LoadStep
  <2> QED
    BY <2>1, <2>2, <1>3 DEF NowhereOff, Off
<1>6. CASE Upgrade
  BY <1>6, <1>3 DEF Upgrade, loaders, service, NowhereOff, Off
<1>7. ASSUME NEW t \in Tool, ToolStep(t) \/ Killed(t) PROVE NowhereOff'
  <2>1. UNCHANGED <<options, kf>>
    BY <1>7 DEF ToolStep, Killed, Access, Create, ToolLoad, ToolPolicy, Open, ToolWrite,
                loaders, service
  <2>2. ~ToolWrite(t)
    BY DEF ToolWrite, ToolAt, SwitchInv, Rewritten, MayWrite, TypeOK
  <2>3. Loads(file') => ~Off(file')
    BY <2>2, <1>7, <1>3
       DEF ToolStep, Killed, Access, Create, ToolLoad, ToolPolicy, Open, NowhereOff, Off, Empty
  <2>4. \A u \in Tool : ~Off(dic'[u])
    <3>1. CASE ToolLoad(t)
      BY <3>1, <1>3 DEF ToolLoad, TypeOK, NowhereOff
    <3>2. CASE ToolPolicy(t)
      <4>1. PICK p : dic' = [dic EXCEPT ![t][VALIDATE_POLICY] = p]
        BY <3>2 DEF ToolPolicy
      <4>2. ~Off([dic[t] EXCEPT ![VALIDATE_POLICY] = p])
        BY <1>3, <1>4, ConfValues DEF Off, TypeOK, NowhereOff
      <4> QED
        BY <4>1, <4>2, <1>3 DEF TypeOK, NowhereOff
    <3>3. CASE ~ToolLoad(t) /\ ~ToolPolicy(t)
      BY <3>3, <1>7, <1>3 DEF ToolStep, Killed, Access, Create, Open, ToolWrite, NowhereOff
    <3> QED
      BY <3>1, <3>2, <3>3
  <2> QED
    BY <2>1, <2>3, <2>4, <1>3 DEF NowhereOff, Off
<1>8. CASE SetterLoad \/ SetterTruncate \/ SetterWrite
  <2>1. UNCHANGED <<options, dic>>
    BY <1>8 DEF SetterLoad, SetterTruncate, SetterWrite, loaders, tools
  <2>2. ~Off(kf')
    BY <1>8, <1>3
       DEF SetterLoad, SetterTruncate, SetterWrite, NowhereOff, Off, Override, Configured
  <2>3. Loads(file') => ~Off(file')
    <3>1. CASE SetterWrite
      <4>1. /\ file' \in Overlay(file, kf) /\ IsContent(file)
            /\ ~Off(kf) /\ (Loads(file) => ~Off(file))
        BY <3>1, <1>3 DEF SetterWrite, TypeOK, NowhereOff
      <4>2. CASE file' = Broken
        BY <4>2 DEF Loads
      <4>3. CASE file' = kf
        BY <4>1, <4>3
      <4>4. ASSUME Loads(file), NEW S \in SUBSET DOMAIN file,
                   file' = Override(kf, [k \in S |-> file[k]])
            PROVE  ~Off(file')
        BY <4>1, <4>4 DEF Off, Override
      <4> QED
        BY <4>1, <4>2, <4>3, <4>4, OverlayCases
    <3>2. CASE ~SetterWrite
      BY <3>2, <1>8, <1>3 DEF SetterLoad, SetterTruncate, NowhereOff, Off, Empty
    <3> QED
      BY <3>1, <3>2
  <2> QED
    BY <2>1, <2>2, <2>3, <1>3 DEF NowhereOff, Off
<1>9. CASE UNCHANGED vars
  BY <1>9, <1>3 DEF vars, loaders, tools, service, NowhereOff, Off
<1> QED
  BY <1>5, <1>6, <1>7, <1>8, <1>9 DEF Next

LEMMA SourceInvariance == Spec => [](SourceInv /\ SwitchInv)
<1>1. Init => SourceInv /\ Policed /\ SwitchInv
  BY SourceInit, SwitchInit DEF Init, Policed
<1>2. TypeOK /\ Waiting /\ Policed /\ SourceInv /\ SwitchInv /\ [Next]_vars
      => Policed' /\ SourceInv' /\ SwitchInv'
  BY PolicedNext, SourceNext, SwitchNext
<1> QED
  BY <1>1, <1>2, Invariance, PTL DEF Spec

(* Whatever races with a load and dies meanwhile, every option is a        *)
(* default or a value somebody configured, the policy as long as the file  *)
(* never changed between two openings of one load; the check is off only   *)
(* if somebody turned it off or a tool has rewritten a switch that cannot  *)
(* be read (load_pwd_conf, update_conf).                                   *)
THEOREM OptionsAreSourced == Spec => []OptionsHaveASource
<1>1. SourceInv /\ SwitchInv => OptionsHaveASource
  <2> SUFFICES ASSUME SourceInv, SwitchInv, NEW l \in Loader
               PROVE  /\ \A k \in Key :
                            k # VALIDATE_POLICY \/ ~moved => options[l][k] \in Sources(k)
                      /\ options[l][STRONG_PASSWORD] = No =>
                            \/ Configured(STRONG_PASSWORD, {No})
                            \/ Configured(STRONG_PASSWORD, Malformed) /\ Rewritten
    BY DEF OptionsHaveASource
  <2>1. TurnedOff => \/ Configured(STRONG_PASSWORD, {No})
                     \/ Configured(STRONG_PASSWORD, Malformed)
    BY DEF TurnedOff, Configured
  <2>2. ~Rewritten /\ ~Configured(STRONG_PASSWORD, {No}) => options[l][STRONG_PASSWORD] # No
    BY DEF SwitchInv, NowhereOff
  <2> QED
    BY <2>1, <2>2 DEF SourceInv
<1> QED
  BY <1>1, SourceInvariance, PTL

(***************************************************************************)
(* What a setter has saved                                                 *)
(***************************************************************************)
(* The setting is in c, as it was set or as the tool reads it.             *)
Kept(c) ==
    \A k \in DOMAIN SetterArg :
        k \in DOMAIN c /\ c[k] \in {SetterArg[k], AsRead(k, SetterArg[k], No)}

(* Its policy did not come out of an uninitialised buffer.                 *)
Clean(c) == VALIDATE_POLICY \in DOMAIN c => c[VALIDATE_POLICY] # Garbage

(* One process at a time is about to rewrite the file: what it loaded is   *)
(* what the file holds until it truncates it.                              *)
OneAtATime ==
    /\ \A t, u \in Rewriter : t = u
    /\ Loads(file) => Clean(file)
    /\ setter \in {"truncate", "write"} => Rewriter = {} /\ Kept(kf) /\ Clean(kf)
    /\ setter = "write" => file = Empty
    /\ \A t \in Rewriter :
          /\ Clean(dic[t])
          /\ tool[t] \in {"policy", "open"} => Loads(file) /\ dic[t] = file
          /\ tool[t] = "policy" => VALIDATE_POLICY \in DOMAIN file
          /\ tool[t] = "write" => file = Empty
    /\ setter = "done" /\ ~died =>
          /\ \A t \in Rewriter : tool[t] = "write" => Kept(dic[t])
          /\ (\A t \in Rewriter : tool[t] # "write") => Loads(file) /\ Kept(file)

ApartInv == apart => OneAtATime

LEMMA KeptUpdated ==
  ASSUME NEW c, Kept(c) PROVE Kept(Updated(c))
<1> SUFFICES ASSUME NEW k \in DOMAIN SetterArg
             PROVE  /\ k \in DOMAIN Updated(c)
                    /\ Updated(c)[k] \in {SetterArg[k], AsRead(k, SetterArg[k], No)}
  BY DEF Kept
<1>1. k \in ToolKeys
  BY SetterAssumption DEF ToolKeys, Key, ServiceKeys, StrengthKeys, Standard, STRONG_PASSWORD,
     FIRST_LETTER_UPPERCASE, PASSWORD_MIN_LENGTH, PASSWORD_MAX_LENGTH, VALIDATE_POLICY,
     VALIDATE_REQUIRED
<1>2. k \in DOMAIN c /\ c[k] \in {SetterArg[k], AsRead(k, SetterArg[k], No)}
  BY DEF Kept
<1>3. Updated(c)[k] = AsRead(k, c[k], No) /\ k \in DOMAIN Updated(c)
  BY <1>1, <1>2 DEF Updated
<1>4. \A v : AsRead(k, AsRead(k, v, No), No) = AsRead(k, v, No)
  BY ValAssumption DEF AsRead
<1> QED
  BY <1>2, <1>3, <1>4

LEMMA PolicyIsText ==
  VALIDATE_POLICY \in ToolKeys /\ VALIDATE_POLICY \in TextKeys /\ VALIDATE_POLICY \in Key
  BY DEF ToolKeys, Key, ServiceKeys, TextKeys, StrengthKeys, Standard, VALIDATE_POLICY

LEMMA OtherPolicy ==
  VALIDATE_POLICY \notin {STRONG_PASSWORD, FIRST_LETTER_UPPERCASE, PASSWORD_MIN_LENGTH,
                         PASSWORD_MAX_LENGTH, VALIDATE_REQUIRED, DICT_PATH,
                         "PALINDROME_NUM", "WORD_CHECK"}
  BY DEF VALIDATE_POLICY, STRONG_PASSWORD, FIRST_LETTER_UPPERCASE, PASSWORD_MIN_LENGTH,
         PASSWORD_MAX_LENGTH, VALIDATE_REQUIRED, DICT_PATH

LEMMA CleanUpdated ==
  ASSUME NEW c, Clean(c), OsKnown PROVE Clean(Updated(c))
<1>1. OsDefault[VALIDATE_POLICY] = DefaultPolicy
  <2>1. ASSUME NEW type \in {"OS_PROFESSIONAL", "OS_SERVER", "OS_EULER"}
        PROVE  default_conf[type][VALIDATE_POLICY] = DefaultPolicy
    BY OtherPolicy, PolicyIsText DEF default_conf, Row
  <2> QED
    BY <2>1, KnownTypes DEF OsKnown, OsType, OsDefault
<1> QED
  BY <1>1, PolicyIsText, GarbageAssumption DEF Clean, Updated, AsRead

LEMMA OverrideKept ==
  ASSUME NEW c, Clean(c)
  PROVE  Kept(Override(c, SetterArg)) /\ Clean(Override(c, SetterArg))
<1>1. Kept(Override(c, SetterArg))
  BY DEF Kept, Override
<1>2. Clean(Override(c, SetterArg))
  BY GarbageAssumption DEF Clean, Override
<1> QED
  BY <1>1, <1>2

LEMMA ApartInit == Init => ApartInv
<1> SUFFICES ASSUME Init PROVE OneAtATime
  BY DEF ApartInv
<1>1. Rewriter = {}
  BY DEF Init, Rewriter
<1>2. Loads(file) => Clean(file)
  BY GarbageAssumption DEF Init, Clean, Loads
<1> QED
  BY <1>1, <1>2 DEF Init, OneAtATime

(* A step that leaves alone the file, the setter and the tools that are    *)
(* about to rewrite changes nothing here.                                  *)
LEMMA ApartFrame ==
  ASSUME OneAtATime, UNCHANGED <<file, setter, kf>>, died => died',
         \A t \in Tool : \/ tool'[t] = tool[t] /\ dic'[t] = dic[t]
                         \/ /\ t \notin Rewriter
                            /\ MayWrite(t) => tool'[t] \notin {"policy", "open", "write"}
  PROVE  OneAtATime'
<1>1. \A t \in Tool : MayWrite(t)' <=> MayWrite(t)
  BY DEF MayWrite
<1>2. Rewriter' = Rewriter
  BY <1>1 DEF Rewriter
<1>3. \A t \in Rewriter : tool'[t] = tool[t] /\ dic'[t] = dic[t]
  BY DEF Rewriter
<1> QED
  BY <1>2, <1>3 DEF OneAtATime, Kept, Clean

LEMMA ApartNext == TypeOK /\ Waiting /\ SwitchInv /\ ApartInv /\ [Next]_vars => ApartInv'
<1> SUFFICES ASSUME TypeOK, Waiting, SwitchInv, ApartInv, [Next]_vars, apart'
             PROVE  OneAtATime'
  BY DEF ApartInv
<1>a. apart /\ (died => died')
  BY DEF Next, Call, LoadStep, Load, LoadPolicy, Fork, ForkFails, Wait, LoadFails,
         Upgrade, ToolStep, Killed, Access, Create, ToolLoad, ToolPolicy, Open, ToolWrite,
         SetterLoad, SetterTruncate, SetterWrite, vars, watch, history,
         ChangesFile, LoadsToRewrite, TypeOK
<1>b. OneAtATime
  BY <1>a DEF ApartInv
<1>c. Postinst \notin Loader /\ Loader \subseteq Tool /\ Empty # NoFile /\ Loads(Empty)
  BY ProcessAssumption, EmptyIsConf, ConfLoads, ContentAssumption DEF Tool
<1>d. \A t \in Tool : MayWrite(t)' <=> MayWrite(t)
  BY DEF MayWrite
<1>e. Clean(Empty)
  BY DEF Clean, Empty
<1>1. ASSUME NEW l \in Loader, Call(l) \/ LoadStep(l) PROVE OneAtATime'
  <2>1. UNCHANGED <<file, setter, kf, dic>>
    BY <1>1 DEF Call, LoadStep, Load, LoadPolicy, Fork, ForkFails, Wait, LoadFails,
                tools, service
  <2>2. \A t \in Tool : \/ tool'[t] = tool[t]
                        \/ tool[t] = "idle" /\ tool'[t] \in {"access", "done"}
    BY <1>1, <1>c DEF Call, LoadStep, Load, LoadPolicy, Fork, ForkFails, Wait, LoadFails,
                tools, ToolAt, TypeOK
  <2> QED
    BY <2>1, <2>2, <1>a, <1>b, ApartFrame DEF Rewriter
<1>2. CASE Upgrade
  <2>1. /\ UNCHANGED <<file, setter, kf, dic>>
        /\ \A t \in Tool : \/ tool'[t] = tool[t]
                           \/ tool[t] = "idle" /\ tool'[t] \in {"access", "done"}
    BY <1>2 DEF Upgrade, ToolAt, service, TypeOK
  <2> QED
    BY <2>1, <1>a, <1>b, ApartFrame DEF Rewriter
<1>3. ASSUME NEW t \in Tool, Access(t) PROVE OneAtATime'
  <2>1. /\ UNCHANGED <<file, setter, kf, dic>>
        /\ \A u \in Tool : \/ tool'[u] = tool[u]
                           \/ tool[u] = "access" /\ tool'[u] \in {"create", "load"}
    BY <1>3 DEF Access, ToolAt, service, TypeOK
  <2> QED
    BY <2>1, <1>a, <1>b, ApartFrame DEF Rewriter
<1>4. ASSUME NEW t \in Tool, Create(t) PROVE OneAtATime'
  <2>1. /\ UNCHANGED <<setter, kf, dic, died>>
        /\ tool[t] = "create" /\ tool'[t] \in {"load", "done"}
        /\ \A u \in Tool \ {t} : tool'[u] = tool[u]
        /\ file' = file \/ (file = NoFile /\ file' = Empty)
    BY <1>4 DEF Create, ToolAt, service, history, TypeOK
  <2>2. Rewriter' = Rewriter /\ t \notin Rewriter
    BY <2>1, <1>d DEF Rewriter
  <2>3. CASE file' = file
    BY <2>1, <2>2, <2>3, <1>b, ApartFrame DEF Rewriter
  <2>4. CASE file = NoFile /\ file' = Empty
    <3>1. ~Loads(file)
      BY <2>4 DEF Loads
    <3>2. Rewriter = {}
      BY <2>4, <3>1, <1>b, <1>c DEF OneAtATime, Rewriter
    <3>3. ~(setter = "done" /\ ~died) /\ setter # "write"
      BY <2>4, <3>1, <3>2, <1>b, <1>c DEF OneAtATime
    <3> QED
      BY <2>1, <2>2, <2>4, <3>2, <3>3, <1>b, <1>e DEF OneAtATime, Kept, Clean
  <2> QED
    BY <2>1, <2>3, <2>4
<1>5. ASSUME NEW t \in Tool, ToolLoad(t) PROVE OneAtATime'
  <2>1. /\ UNCHANGED <<file, setter, kf, died>>
        /\ tool[t] = "load"
        /\ \A u \in Tool \ {t} : tool'[u] = tool[u] /\ dic'[u] = dic[u]
    BY <1>5 DEF ToolLoad, ToolAt, service, history, TypeOK
  <2>2. CASE ~MayWrite(t)
    BY <2>1, <2>2, <1>b, ApartFrame DEF Rewriter
  <2>3. CASE MayWrite(t) /\ ~Loads(file)
    <3>1. tool'[t] = "done"
      BY <1>5, <2>3 DEF ToolLoad, ToolAt, TypeOK
    <3> QED
      BY <2>1, <3>1, <1>b, ApartFrame DEF Rewriter
  <2>4. CASE MayWrite(t) /\ Loads(file)
    <3>1. Rewriter = {} /\ setter \notin {"truncate", "write"}
      BY <1>5, <2>4, <1>a DEF ToolLoad, LoadsToRewrite, Rewriting
    <3>2. /\ tool'[t] \in {"policy", "open"} /\ dic'[t] = file
          /\ tool'[t] = "policy" => VALIDATE_POLICY \in DOMAIN file
      BY <1>5, <2>4 DEF ToolLoad, ToolAt, TypeOK
    <3>3. Rewriter' = {t}
      BY <2>1, <2>4, <3>1, <3>2, <1>d DEF Rewriter
    <3> QED
      BY <2>1, <2>4, <3>1, <3>2, <3>3, <1>b DEF OneAtATime, Clean, Kept
  <2> QED
    BY <2>2, <2>3, <2>4
<1>6. ASSUME NEW t \in Tool, ToolPolicy(t) PROVE OneAtATime'
  <2>1. /\ UNCHANGED <<file, setter, kf, died>>
        /\ tool[t] = "policy" /\ tool'[t] = "open"
        /\ \A u \in Tool \ {t} : tool'[u] = tool[u] /\ dic'[u] = dic[u]
    BY <1>6 DEF ToolPolicy, ToolAt, service, history, TypeOK
  <2>2. CASE ~MayWrite(t)
    BY <2>1, <2>2, <1>b, ApartFrame DEF Rewriter
  <2>3. CASE MayWrite(t)
    <3>1. t \in Rewriter /\ Rewriter' = Rewriter
      BY <2>1, <2>3, <1>d DEF Rewriter
    <3>2. Loads(file) /\ dic[t] = file /\ VALIDATE_POLICY \in DOMAIN file
      BY <2>1, <3>1, <1>b DEF OneAtATime
    <3>3. PICK p \in Policies(file) : dic' = [dic EXCEPT ![t][VALIDATE_POLICY] = p]
      BY <1>6 DEF ToolPolicy
    <3>4. p = file[VALIDATE_POLICY]
      BY <3>2, <3>3 DEF Policies, Loads
    <3>5. [dic[t] EXCEPT ![VALIDATE_POLICY] = p] = dic[t]
      BY <3>2, <3>4, ConfValues DEF TypeOK
    <3>6. dic'[t] = dic[t]
      BY <3>3, <3>5 DEF TypeOK
    <3> QED
      BY <2>1, <3>1, <3>2, <3>6, <1>b DEF OneAtATime, Kept, Clean, Rewriter
  <2> QED
    BY <2>2, <2>3
<1>7. ASSUME NEW t \in Tool, Open(t) PROVE OneAtATime'
  <2>1. /\ UNCHANGED <<setter, kf, died, dic>>
        /\ tool[t] = "open"
        /\ \A u \in Tool \ {t} : tool'[u] = tool[u]
    BY <1>7 DEF Open, ToolAt, service, history, TypeOK
  <2>2. CASE ~MayWrite(t)
    <3>1. file' = file
      BY <1>7, <2>2 DEF Open
    <3> QED
      BY <2>1, <2>2, <3>1, <1>b, ApartFrame DEF Rewriter
  <2>3. CASE MayWrite(t)
    <3>1. tool'[t] = "write" /\ file' = Empty
      BY <1>7, <2>3 DEF Open, ToolAt, TypeOK
    <3>2. t \in Rewriter /\ Rewriter' = Rewriter
      BY <2>1, <2>3, <3>1, <1>d DEF Rewriter
    <3>3. Rewriter = {t} /\ Loads(file) /\ dic[t] = file /\ setter \notin {"truncate", "write"}
      BY <2>1, <3>2, <1>b DEF OneAtATime
    <3>4. setter = "done" /\ ~died => Kept(dic[t])
      BY <2>1, <3>3, <1>b DEF OneAtATime
    <3> QED
      BY <2>1, <3>1, <3>2, <3>3, <3>4, <1>b, <1>e DEF OneAtATime, Kept, Clean
  <2> QED
    BY <2>2, <2>3
<1>8. ASSUME NEW t \in Tool, ToolWrite(t) PROVE OneAtATime'
  <2>1. /\ UNCHANGED <<setter, kf, died, dic>>
        /\ tool[t] = "write" /\ tool'[t] = "done" /\ MayWrite(t)
        /\ \A u \in Tool \ {t} : tool'[u] = tool[u]
    BY <1>8 DEF ToolWrite, ToolAt, service, history, TypeOK, SwitchInv
  <2>2. t \in Rewriter
    BY <2>1 DEF Rewriter
  <2>3. /\ Rewriter = {t} /\ file = Empty /\ Clean(dic[t])
        /\ setter \notin {"truncate", "write"}
        /\ setter = "done" /\ ~died => Kept(dic[t])
    BY <2>1, <2>2, <1>b DEF OneAtATime
  <2>4. Rewriter' = {}
    BY <2>1, <2>3, <1>d DEF Rewriter
  <2>5. file' = Updated(dic[t])
    BY <1>8, <2>3 DEF ToolWrite, Overlay, Clean
  <2>6. OsKnown /\ IsConf(dic[t])
    BY <2>1 DEF Waiting, TypeOK
  <2>7. Loads(file') /\ Clean(file')
    BY <2>3, <2>5, <2>6, UpdatedIsConf, ConfLoads, CleanUpdated
  <2>8. setter = "done" /\ ~died => Kept(file')
    BY <2>3, <2>5, KeptUpdated
  <2> QED
    BY <2>1, <2>3, <2>4, <2>7, <2>8 DEF OneAtATime, Kept, Clean
<1>9. ASSUME NEW t \in Tool, Killed(t) PROVE OneAtATime'
  <2>1. /\ UNCHANGED <<file, setter, kf, dic>> /\ died'
        /\ tool'[t] = "done"
        /\ \A u \in Tool \ {t} : tool'[u] = tool[u]
    BY <1>9 DEF Killed, service, TypeOK
  <2>2. Rewriter' \subseteq Rewriter \ {t}
    BY <2>1, <1>d DEF Rewriter
  <2>3. \A u \in Rewriter' : u \in Rewriter /\ tool'[u] = tool[u]
    BY <2>1, <2>2 DEF Rewriter
  <2> QED
    BY <2>1, <2>2, <2>3, <1>b DEF OneAtATime, Kept, Clean
<1>10. CASE SetterLoad
  <2>1. /\ UNCHANGED <<file, tool, dic>> /\ setter' = "truncate"
        /\ kf' = Override(file, SetterArg) /\ Loads(file)
    BY <1>10 DEF SetterLoad, tools
  <2>2. Rewriter = {} /\ Rewriter' = {}
    BY <1>10, <2>1, <1>a, <1>d DEF SetterLoad, LoadsToRewrite, Rewriting, Rewriter
  <2>3. Clean(file) /\ Kept(kf') /\ Clean(kf')
    BY <2>1, <1>b, OverrideKept DEF OneAtATime
  <2> QED
    BY <2>1, <2>2, <2>3 DEF OneAtATime, Kept, Clean
<1>11. CASE SetterTruncate
  <2>1. /\ UNCHANGED <<kf, tool, dic>> /\ setter = "truncate" /\ setter' = "write"
        /\ file' = Empty
    BY <1>11 DEF SetterTruncate, tools
  <2>2. Rewriter = {} /\ Rewriter' = {} /\ Kept(kf) /\ Clean(kf)
    BY <2>1, <1>b, <1>d DEF OneAtATime, Rewriter
  <2> QED
    BY <2>1, <2>2, <1>e DEF OneAtATime, Kept, Clean
<1>12. CASE SetterWrite
  <2>1. /\ UNCHANGED <<kf, tool, dic>> /\ setter = "write" /\ setter' = "done"
        /\ file' \in Overlay(file, kf)
    BY <1>12 DEF SetterWrite, tools
  <2>2. Rewriter = {} /\ Rewriter' = {} /\ Kept(kf) /\ Clean(kf) /\ file = Empty
    BY <2>1, <1>b, <1>d DEF OneAtATime, Rewriter
  <2>3. file' = kf /\ Loads(kf)
    BY <2>1, <2>2, ConfLoads DEF Overlay, TypeOK
  <2> QED
    BY <2>1, <2>2, <2>3 DEF OneAtATime, Kept, Clean
<1>13. CASE UNCHANGED vars
  <2>1. UNCHANGED <<file, setter, kf, tool, dic, died>>
    BY <1>13 DEF vars, tools, service, history
  <2> QED
    BY <2>1, <1>b, ApartFrame
<1> QED
  BY <1>1, <1>2, <1>3, <1>4, <1>5, <1>6, <1>7, <1>8, <1>9, <1>10, <1>11, <1>12, <1>13
     DEF Next, ToolStep

(* What the setter has saved survives every rewrite of the file, unless a  *)
(* process loaded the file to rewrite it while another was about to, or    *)
(* died (update_conf and the setters of the service).                      *)
THEOREM SettingsOutlastUpgrades == Spec => []SettingsSurvive
<1>1. SwitchInv /\ ApartInv => SettingsSurvive
  BY DEF SwitchInv, ApartInv, OneAtATime, SettingsSurvive, Kept, Rewriter
<1>2. Init => ApartInv
  BY ApartInit
<1>3. TypeOK /\ Waiting /\ SwitchInv /\ ApartInv /\ [Next]_vars => ApartInv'
  BY ApartNext
<1> QED
  BY <1>1, <1>2, <1>3, Invariance, SourceInvariance, PTL DEF Spec

(***************************************************************************)
(* Loads with the right to write                                           *)
(***************************************************************************)
LEMMA RecognisedIsKnown ==
  ASSUME os_version \in OsVersions
  PROVE  Recognised <=> OsKnown
<1> DEFINE build == OsBuild(os_version)
<1>1. CASE os_version = NoFile
  <2>1. OsType = "OS_PROFESSIONAL"
    BY <1>1, ContentAssumption DEF OsType, get_current_os_type, Loads
  <2> QED
    BY <1>1, <2>1 DEF Recognised, OsKnown, Known
<1>2. CASE os_version = Broken
  BY <1>2, ContentAssumption DEF Recognised, OsKnown, OsType, Known, get_current_os_type, Loads
<1>3. CASE Loads(os_version)
  <2>1. build \in Seq(BuildChar)
    <3>1. CASE "OsBuild" \in DOMAIN os_version
      BY <1>3, <3>1, OsAssumption DEF OsBuild, Loads
    <3>2. CASE "OsBuild" \notin DOMAIN os_version
      <4>1. build = DefaultBuild
        BY <3>2 DEF OsBuild
      <4>2. DefaultBuild \in Seq(BuildChar)
        BY DEF DefaultBuild, BuildChar
      <4> QED
        BY <4>1, <4>2
    <3> QED
      BY <3>1, <3>2
  <2>2. Recognised <=> Len(build) >= 4 /\ build[2] \in {"1", "2", "3"}
    BY <1>3 DEF Recognised, Loads
  <2>3. CASE Len(build) < 4
    BY <1>3, <2>1, <2>2, <2>3
       DEF OsKnown, OsType, Known, get_current_os_type, Loads
  <2>4. CASE ~(Len(build) < 4)
    <3>1. OsType = CASE build[2] = "1" -> "OS_PROFESSIONAL"
                     [] build[2] = "2" /\ build[4] = "3" -> "OS_EULER"
                     [] build[2] = "2" /\ build[4] # "3" -> "OS_SERVER"
                     [] build[2] = "3" -> "OS_SERVER"
                     [] OTHER -> "OS_UNKNOWN_TYPE"
      BY <1>3, <2>4 DEF OsType, get_current_os_type, Loads
    <3> HIDE DEF build
    <3>2. OsKnown <=> build[2] \in {"1", "2", "3"}
      BY <3>1 DEF OsKnown, Known
    <3> QED
      BY <3>2, <2>1, <2>2, <2>4
  <2> QED
    BY <2>3, <2>4
<1> QED
  BY <1>1, <1>2, <1>3 DEF Loads

(* While nobody died, a privileged loader that has started its tool has a  *)
(* file, or the tool is about to create one.                               *)
FileInv ==
    \A l \in Root : l \in retried /\ ~died /\ OsKnown /\ file = NoFile
                    => tool[l] \in {"access", "create"}

LEMMA FileInit == Init => FileInv
  BY DEF Init, FileInv

LEMMA FileNext == TypeOK /\ Waiting /\ FileInv /\ [Next]_vars => FileInv'
<1> SUFFICES ASSUME TypeOK, Waiting, FileInv, [Next]_vars PROVE FileInv'
  OBVIOUS
<1>1. UNCHANGED OsKnown
  BY OnceStays, SystemStays
<1>2. Root \subseteq Loader /\ Loader \subseteq Tool /\ Empty # NoFile
  BY ProcessAssumption, EmptyIsConf, ContentAssumption DEF Tool
<1>3. ASSUME NEW l \in Loader, Call(l) \/ LoadStep(l) PROVE FileInv'
  BY <1>1, <1>2, <1>3
     DEF Call, LoadStep, Load, LoadPolicy, Fork, ForkFails, Wait, LoadFails,
         LoaderAt, ToolAt, tools, history, TypeOK, FileInv
<1>4. CASE Upgrade
  BY <1>1, <1>2, <1>4, ProcessAssumption DEF Upgrade, ToolAt, loaders, history, TypeOK, FileInv
<1>5. ASSUME NEW t \in Tool, ToolStep(t) \/ Killed(t) PROVE FileInv'
  <2>1. CASE Access(t) \/ Create(t)
    BY <1>1, <1>2, <2>1 DEF Access, Create, MayWrite, ToolAt, loaders, history, TypeOK, FileInv
  <2>2. CASE ToolLoad(t) \/ ToolPolicy(t) \/ Open(t)
    BY <1>1, <1>2, <2>2
       DEF ToolLoad, ToolPolicy, Open, ToolAt, loaders, history, TypeOK, FileInv
  <2>3. CASE ToolWrite(t)
    <3>1. tool[t] = "write" /\ IsConf(Updated(dic[t]))
      BY <2>3, UpdatedIsConf DEF ToolWrite, ToolAt, Waiting, TypeOK
    <3>2. file' # NoFile
      BY <2>3, <3>1, OverlayIsContent, ContentAssumption DEF ToolWrite, TypeOK
    <3> QED
      BY <3>2 DEF FileInv
  <2>4. CASE Killed(t)
    BY <2>4 DEF Killed, FileInv
  <2> QED
    BY <1>5, <2>1, <2>2, <2>3, <2>4 DEF ToolStep
<1>6. CASE SetterLoad \/ SetterTruncate \/ SetterWrite
  <2>1. SetterTruncate \/ SetterWrite => file' # NoFile
    BY <1>2, OverlayIsContent DEF SetterTruncate, SetterWrite, TypeOK
  <2> QED
    BY <1>1, <1>6, <2>1
       DEF SetterLoad, SetterTruncate, SetterWrite, loaders, tools, history, FileInv
<1>7. CASE UNCHANGED vars
  BY <1>1, <1>7 DEF vars, loaders, tools, history, FileInv
<1> QED
  BY <1>3, <1>4, <1>5, <1>6, <1>7 DEF Next

LEMMA FileInvariance == Spec => [](TypeOK /\ Waiting /\ FileInv)
<1>1. Init => FileInv
  BY FileInit
<1>2. TypeOK /\ Waiting /\ FileInv /\ [Next]_vars => FileInv'
  BY FileNext
<1> QED
  BY <1>1, <1>2, Invariance, PTL DEF Spec

LEMMA FailedLoad ==
  ASSUME TypeOK, Waiting, FileInv, [Next]_vars, NEW l \in Root,
         pc[l] # "failed", pc'[l] = "failed", Recognised, ~died'
  PROVE  file = Broken
<1>1. l \in Loader
  BY ProcessAssumption
<1>2. LoadFails(l) /\ UNCHANGED history
  BY <1>1 DEF Next, Call, LoadStep, Load, LoadPolicy, Fork, ForkFails, Wait, LoadFails,
         LoaderAt, Upgrade, ToolStep, Killed, Access, Create, ToolLoad, ToolPolicy, Open,
         ToolWrite, SetterLoad, SetterTruncate, SetterWrite, vars, loaders, TypeOK
<1>3. OsKnown /\ ~died /\ l \in retried /\ pc[l] = "load" /\ ~Loads(file)
  BY <1>2, RecognisedIsKnown DEF LoadFails, LoaderAt, history, TypeOK
<1>4. tool[l] \in {"idle", "done"}
  BY <1>1, <1>3 DEF Waiting
<1> QED
  BY <1>3, <1>4 DEF FileInv, Loads

(* While nobody dies, a load that may write /etc/deepin fails only on a    *)
(* file that is there and is not INI (load_pwd_conf, main of the tool).    *)
THEOREM PrivilegedLoadsSucceed == Spec => PrivilegedLoadsFindAFile
<1> DEFINE Act == \A l \in Root : /\ pc[l] # "failed" /\ pc'[l] = "failed"
                                  /\ Recognised /\ ~died'
                                  => file = Broken
<1>1. TypeOK /\ Waiting /\ FileInv /\ [Next]_vars => [Act]_vars
  BY FailedLoad
<1> QED
  BY <1>1, FileInvariance, PTL DEF Spec, PrivilegedLoadsFindAFile

(* Where the tool does not know the system only the setter changes         *)
(* dde.conf (get_current_os_type, main).                                   *)
THEOREM ToolKeepsOut == Spec => UnknownSystemsAreLeftAlone
<1> DEFINE Act == ~Recognised /\ setter' = setter => file' = file
<1>1. TypeOK /\ Waiting /\ [Next]_vars => [Act]_vars
  <2> SUFFICES ASSUME TypeOK, Waiting, Next, ~Recognised, setter' = setter
               PROVE  file' = file
    BY DEF vars
  <2>1. \A t \in Tool : tool[t] \in {"idle", "done"}
    BY RecognisedIsKnown DEF Waiting, TypeOK
  <2> QED
    BY <2>1 DEF Next, Call, LoadStep, Load, LoadPolicy, Fork, ForkFails, Wait, LoadFails,
         Upgrade, ToolStep, Killed, Access, Create, ToolLoad, ToolPolicy, Open, ToolWrite,
         ToolAt, SetterLoad, SetterTruncate, SetterWrite, TypeOK
<1> QED
  BY <1>1, Invariance, PTL DEF Spec, UnknownSystemsAreLeftAlone

(***************************************************************************)
(* A process that nobody disturbs                                          *)
(***************************************************************************)
(* Nobody died and nobody but t has started.                               *)
Alone(t) ==
    /\ ~died /\ Idle(Loader \ {t})
    /\ t # Postinst => tool[Postinst] = "idle"

(* What the tool loads: the first content, or the file it has created.     *)
Base == IF first = NoFile THEN Empty ELSE first

(* How far tool t has come.                                                *)
Stage(t) ==
    /\ tool[t] \in {"idle", "access"} => file = first
    /\ tool[t] = "create" => file = first /\ first = NoFile
    /\ tool[t] \in {"load", "policy", "open"} => file = Base
    /\ tool[t] \in {"load", "policy", "open", "write"} /\ first = NoFile => MayWrite(t)
    /\ tool[t] \in {"policy", "open", "write"} => dic[t] = Base /\ Loads(Base)
    /\ tool[t] = "policy" => VALIDATE_POLICY \in DOMAIN Base
    /\ tool[t] = "write" => file = Empty /\ MayWrite(t)
    /\ tool[t] = "done" =>
          \/ ~OsKnown /\ file = first
          \/ first = Broken /\ file = first
          \/ ~MayWrite(t) /\ file = first
          \/ MayWrite(t) /\ OsKnown /\ Loads(Base) /\ file = Updated(Base)

(* How far loader l has come.                                              *)
Progress(l) ==
    /\ tool[l] # "idle" => ~Loads(first)
    /\ pc[l] = "policy" => VALIDATE_POLICY \in DOMAIN file
    /\ pc[l] \in {"policy", "done"} => Loads(file) /\ options[l] = Options(file)
    /\ pc[l] = "failed" => ~Loads(file) /\ l \in retried

AloneInv == /\ first \in InitConfs
            /\ \A t \in Tool : Alone(t) => Stage(t)
            /\ \A l \in Loader : Alone(l) => Progress(l)

LEMMA AloneInit == Init => AloneInv
  BY DEF Init, AloneInv, Stage, Progress, Tool

(* If only t has started after a step, the step was its own.               *)
LEMMA OwnStep ==
  ASSUME TypeOK, Waiting, Next, NEW t \in Tool, Alone(t)'
  PROVE  /\ Alone(t)
         /\ UNCHANGED <<setter, kf>>
         /\ \/ ToolStep(t)
            \/ t = Postinst /\ Upgrade
            \/ t \in Loader /\ (Call(t) \/ Load(t) \/ LoadPolicy(t) \/ Fork(t)
                                \/ Wait(t) \/ LoadFails(t))
<1>1. /\ Loader \subseteq Tool /\ Postinst \in Tool /\ Postinst \notin Loader
      /\ t # Postinst => t \in Loader
  BY ProcessAssumption DEF Tool
<1>2. ~died' /\ setter' = "idle" /\ \A l \in Loader \ {t} : pc'[l] = "idle"
  BY DEF Alone, Idle
<1>3. t # Postinst => tool'[Postinst] = "idle"
  BY DEF Alone
<1>4. ~(SetterLoad \/ SetterTruncate \/ SetterWrite)
  BY <1>2 DEF SetterLoad, SetterTruncate, SetterWrite
<1>5. ASSUME NEW l \in Loader, Call(l) \/ LoadStep(l)
      PROVE  l = t /\ ~ForkFails(l)
    BY <1>2, <1>5
       DEF Call, LoadStep, Load, LoadPolicy, Fork, ForkFails, Wait, LoadFails,
           LoaderAt, TypeOK
<1>6. Upgrade => t = Postinst
  BY <1>1, <1>3 DEF Upgrade, ToolAt, TypeOK
<1>7. ASSUME NEW u \in Tool, ToolStep(u) \/ Killed(u) PROVE u = t /\ ~Killed(u)
  <2>1. ~Killed(u)
    BY <1>2 DEF Killed
  <2>2. UNCHANGED pc /\ tool[u] \notin {"idle", "done"} /\ tool'[u] # "idle"
    BY <2>1, <1>7
       DEF ToolStep, Access, Create, ToolLoad, ToolPolicy, Open, ToolWrite, ToolAt,
           loaders, TypeOK
  <2>3. u \in Loader => pc[u] = "wait"
    BY <2>2 DEF Waiting
  <2> QED
    BY <2>1, <2>2, <2>3, <1>2, <1>3 DEF Tool
<1>8. \/ ToolStep(t)
      \/ t = Postinst /\ Upgrade
      \/ t \in Loader /\ (Call(t) \/ Load(t) \/ LoadPolicy(t) \/ Fork(t)
                          \/ Wait(t) \/ LoadFails(t))
  BY <1>4, <1>5, <1>6, <1>7 DEF Next, LoadStep
<1>9. /\ UNCHANGED <<setter, kf, died>>
      /\ \A l \in Loader \ {t} : pc[l] = pc'[l]
      /\ \A u \in Tool \ {t} : tool[u] = tool'[u]
  BY <1>8 DEF ToolStep, Access, Create, ToolLoad, ToolPolicy, Open, ToolWrite,
              Upgrade, Call, Load, LoadPolicy, Fork, Wait, LoadFails,
              LoaderAt, ToolAt, loaders, tools, service, history, TypeOK
<1>10. Alone(t)
  BY <1>1, <1>2, <1>3, <1>9 DEF Alone, Idle
<1> QED
  BY <1>8, <1>9, <1>10

LEMMA BaseFacts ==
  ASSUME first \in InitConfs
  PROVE  /\ Loads(Base) => IsConf(Base)
         /\ Loads(Base) => Garbage \notin {Base[k] : k \in DOMAIN Base}
         /\ ~Loads(Base) => first = Broken
         /\ first # NoFile => Base = first
         /\ first = NoFile => Base = Empty
<1>1. CASE first = NoFile
  BY <1>1, EmptyIsConf, ConfLoads DEF Base, Empty
<1>2. CASE first # NoFile
  <2>1. Base = first
    BY <1>2 DEF Base
  <2> QED
    BY <1>2, <2>1, InitAssumption, GarbageAssumption, ContentLoads DEF Loads
<1> QED
  BY <1>1, <1>2

LEMMA StageStays ==
  ASSUME TypeOK, Waiting, NEW t \in Tool, first \in InitConfs, Stage(t), UNCHANGED once,
         \/ ToolStep(t)
         \/ t = Postinst /\ Upgrade
         \/ t \in Loader /\ (Call(t) \/ Load(t) \/ LoadPolicy(t) \/ Fork(t)
                             \/ Wait(t) \/ LoadFails(t))
  PROVE  Stage(t)'
<1>1. /\ UNCHANGED <<OsKnown, OsDefault, first, Base>>
      /\ \A c : Updated(c)' = Updated(c)
  BY SystemStays DEF once, Updated, Base
<1>2. CASE UNCHANGED <<file, tool, dic>>
  BY <1>1, <1>2 DEF Stage, MayWrite
<1>3. CASE tool[t] = "idle" /\ tool'[t] = (IF OsKnown THEN "access" ELSE "done")
           /\ UNCHANGED file
  BY <1>1, <1>3 DEF Stage
<1>4. CASE Access(t)
  <2>1. tool[t] = "access" /\ UNCHANGED file
        /\ tool'[t] = (IF file = NoFile THEN "create" ELSE "load")
    BY <1>4 DEF Access, ToolAt, TypeOK
  <2> QED
    BY <1>1, <2>1, BaseFacts DEF Stage
<1>5. CASE Create(t)
  <2>1. /\ tool[t] = "create" /\ file = first /\ first = NoFile
        /\ tool'[t] = (IF MayWrite(t) THEN "load" ELSE "done")
        /\ file' = IF MayWrite(t) THEN Empty ELSE file
    BY <1>5 DEF Create, ToolAt, TypeOK, Stage
  <2> QED
    BY <1>1, <2>1, BaseFacts DEF Stage, MayWrite
<1>6. CASE ToolLoad(t)
  <2>1. tool[t] = "load" /\ file = Base /\ UNCHANGED file
    BY <1>6 DEF ToolLoad, ToolAt, Stage
  <2>2. CASE ~Loads(file)
    <3>0. tool'[t] = "done"
      BY <1>6, <2>2 DEF ToolLoad, ToolAt, TypeOK
    <3>1. first = Broken /\ file = first
      BY <2>1, <2>2, BaseFacts, ContentAssumption
    <3> QED
      BY <1>1, <2>1, <3>0, <3>1 DEF Stage
  <2>3. CASE Loads(file)
    <3>1. /\ tool'[t] \in {"policy", "open"}
          /\ tool'[t] = "policy" => VALIDATE_POLICY \in DOMAIN file
          /\ dic'[t] = file
      BY <1>6, <2>3 DEF ToolLoad, ToolAt, TypeOK
    <3> QED
      BY <1>1, <2>1, <2>3, <3>1 DEF Stage, MayWrite
  <2> QED
    BY <2>2, <2>3
<1>7. CASE ToolPolicy(t)
  <2>1. /\ tool[t] = "policy" /\ tool'[t] = "open" /\ UNCHANGED file
        /\ file = Base /\ dic[t] = Base /\ Loads(Base) /\ VALIDATE_POLICY \in DOMAIN Base
    BY <1>7 DEF ToolPolicy, ToolAt, TypeOK, Stage
  <2>2. PICK p \in Policies(file) : dic' = [dic EXCEPT ![t][VALIDATE_POLICY] = p]
    BY <1>7 DEF ToolPolicy
  <2>3. p = Base[VALIDATE_POLICY]
    BY <2>1, <2>2 DEF Policies, Loads
  <2>4. IsConf(Base)
    BY <2>1, BaseFacts
  <2>5. [Base EXCEPT ![VALIDATE_POLICY] = p] = Base
    BY <2>3, <2>4, ConfValues
  <2>6. dic'[t] = Base
    BY <2>1, <2>2, <2>5 DEF TypeOK
  <2> QED
    BY <1>1, <2>1, <2>6 DEF Stage, MayWrite
<1>8. CASE Open(t)
  <2>1. /\ tool[t] = "open" /\ file = Base /\ dic'[t] = Base /\ Loads(Base)
        /\ tool'[t] = (IF MayWrite(t) THEN "write" ELSE "done")
        /\ file' = IF MayWrite(t) THEN Empty ELSE file
        /\ first = NoFile => MayWrite(t)
    BY <1>8 DEF Open, ToolAt, TypeOK, Stage
  <2>2. CASE MayWrite(t)
    BY <1>1, <2>1, <2>2 DEF Stage, MayWrite
  <2>3. CASE ~MayWrite(t)
    BY <1>1, <2>1, <2>3, BaseFacts DEF Stage, MayWrite
  <2> QED
    BY <2>2, <2>3
<1>9. CASE ToolWrite(t)
  <2>1. /\ tool[t] = "write" /\ tool'[t] = "done" /\ OsKnown
        /\ file = Empty /\ dic[t] = Base /\ Loads(Base) /\ MayWrite(t)
    BY <1>9 DEF ToolWrite, ToolAt, TypeOK, Stage, Waiting
  <2>2. file' = Updated(Base)
    BY <1>9, <2>1, BaseFacts DEF ToolWrite, Overlay
  <2> QED
    BY <1>1, <2>1, <2>2 DEF Stage, MayWrite
<1>10. CASE Fork(t) \/ (t = Postinst /\ Upgrade)
  BY <1>3, <1>10 DEF Fork, Upgrade, ToolAt, TypeOK
<1>11. CASE Call(t) \/ Load(t) \/ LoadPolicy(t) \/ Wait(t) \/ LoadFails(t)
  BY <1>2, <1>11 DEF Call, Load, LoadPolicy, Wait, LoadFails, tools
<1> QED
  BY <1>4, <1>5, <1>6, <1>7, <1>8, <1>9, <1>10, <1>11 DEF ToolStep

LEMMA ProgressStays ==
  ASSUME TypeOK, Waiting, NEW l \in Loader, Stage(l), Progress(l), UNCHANGED once,
         \/ ToolStep(l)
         \/ Call(l) \/ Load(l) \/ LoadPolicy(l) \/ Fork(l) \/ Wait(l) \/ LoadFails(l)
  PROVE  Progress(l)'
<1>0. l \in Tool /\ UNCHANGED first
  BY DEF Tool, once
<1>1. CASE ToolStep(l)
  <2>1. UNCHANGED <<pc, retried, options>> /\ tool[l] \notin {"idle", "done"}
    BY <1>1 DEF ToolStep, Access, Create, ToolLoad, ToolPolicy, Open, ToolWrite,
                ToolAt, loaders
  <2>2. pc[l] = "wait"
    BY <2>1 DEF Waiting
  <2> QED
    BY <1>0, <2>1, <2>2 DEF Progress
<1>2. CASE Call(l) \/ Wait(l)
  BY <1>0, <1>2 DEF Call, Wait, LoaderAt, tools, TypeOK, Progress
<1>3. CASE Load(l)
  <2>1. /\ Loads(file) /\ UNCHANGED <<file, tool>> /\ options'[l] = Options(file)
        /\ pc'[l] = (IF VALIDATE_POLICY \in DOMAIN file THEN "policy" ELSE "done")
    BY <1>3 DEF Load, LoaderAt, tools, TypeOK
  <2> QED
    BY <1>0, <2>1 DEF Progress
<1>4. CASE LoadPolicy(l)
  <2>1. /\ pc[l] = "policy" /\ pc'[l] = "done" /\ UNCHANGED <<file, tool>>
        /\ Loads(file) /\ options[l] = Options(file) /\ VALIDATE_POLICY \in DOMAIN file
    BY <1>4 DEF LoadPolicy, LoaderAt, tools, TypeOK, Progress
  <2>2. PICK p \in Policies(file) : options' = [options EXCEPT ![l][VALIDATE_POLICY] = p]
    BY <1>4 DEF LoadPolicy
  <2>3. p = file[VALIDATE_POLICY]
    BY <2>1, <2>2 DEF Policies, Loads
  <2>4. VALIDATE_POLICY \in Key \cap TextKeys
    BY DEF Key, ServiceKeys, TextKeys
  <2>5. Options(file)[VALIDATE_POLICY] = p
    BY <2>1, <2>3, <2>4 DEF Options, AsRead
  <2>6. options'[l] = [options[l] EXCEPT ![VALIDATE_POLICY] = p]
    BY <2>2 DEF TypeOK
  <2>7. options'[l] = options[l]
    BY <2>1, <2>5, <2>6 DEF TypeOK
  <2> QED
    BY <1>0, <2>1, <2>7 DEF Progress
<1>5. CASE Fork(l)
  <2>1. ~Loads(first)
    BY <1>5 DEF Fork, ToolAt, Stage
  <2>2. pc'[l] = "wait"
    BY <1>5 DEF Fork, LoaderAt, TypeOK
  <2> QED
    BY <1>0, <2>1, <2>2 DEF Progress
<1>6. CASE LoadFails(l)
  BY <1>0, <1>6 DEF LoadFails, LoaderAt, tools, TypeOK, Progress
<1> QED
  BY <1>1, <1>2, <1>3, <1>4, <1>5, <1>6

LEMMA AloneNext == TypeOK /\ Waiting /\ AloneInv /\ [Next]_vars => AloneInv'
<1> SUFFICES ASSUME TypeOK, Waiting, AloneInv, [Next]_vars PROVE AloneInv'
  OBVIOUS
<1>1. UNCHANGED once /\ first' \in InitConfs
  BY OnceStays DEF once, AloneInv
<1>2. CASE UNCHANGED vars
  BY <1>2, <1>1, SystemStays
     DEF vars, loaders, tools, service, history, once, AloneInv, Alone, Idle, Stage,
         Progress, Base, Updated, MayWrite
<1>3. CASE Next
  <2>1. ASSUME NEW t \in Tool, Alone(t)' PROVE Stage(t)'
    BY <1>1, <1>3, <2>1, OwnStep, StageStays DEF AloneInv
  <2>2. ASSUME NEW l \in Loader, Alone(l)' PROVE Progress(l)'
    <3>1. l \in Tool /\ l # Postinst
      BY ProcessAssumption DEF Tool
    <3>2. /\ Alone(l)
          /\ \/ ToolStep(l)
             \/ Call(l) \/ Load(l) \/ LoadPolicy(l) \/ Fork(l) \/ Wait(l) \/ LoadFails(l)
      BY <1>3, <2>2, <3>1, OwnStep
    <3> QED
      BY <1>1, <3>1, <3>2, ProgressStays DEF AloneInv
  <2> QED
    BY <1>1, <2>1, <2>2 DEF AloneInv
<1> QED
  BY <1>2, <1>3

LEMMA AloneInvariance == Spec => [](TypeOK /\ Waiting /\ AloneInv)
<1>1. Init => AloneInv
  BY AloneInit
<1>2. TypeOK /\ Waiting /\ AloneInv /\ [Next]_vars => AloneInv'
  BY AloneNext
<1> QED
  BY <1>1, <1>2, Invariance, PTL DEF Spec

(* A load that nobody disturbs gets what dde.conf says and the library's   *)
(* defaults for the rest, or the system's defaults from the file its tool  *)
(* has created (load_pwd_conf, update_conf).                               *)
THEOREM UndisturbedLoads == Spec => []UndisturbedLoadIsExact
<1>1. TypeOK /\ Waiting /\ AloneInv => UndisturbedLoadIsExact
  <2> SUFFICES ASSUME TypeOK, Waiting, AloneInv, NEW l \in Loader,
                      ~died, Idle(Loader \ {l}), tool[Postinst] = "idle"
               PROVE  /\ pc[l] = "done" =>
                            options[l] = IF first = NoFile THEN Options(Updated(Empty))
                                                           ELSE Options(first)
                      /\ pc[l] = "failed" => \/ first = Broken
                                             \/ first = NoFile /\ ~(Recognised /\ l \in Root)
    BY DEF UndisturbedLoadIsExact
  <2>1. l \in Tool /\ Stage(l) /\ Progress(l) /\ first \in InitConfs
    BY DEF AloneInv, Alone, Tool
  <2>2. MayWrite(l) <=> l \in Root
    BY ProcessAssumption DEF MayWrite
  <2>3. Recognised <=> OsKnown
    BY RecognisedIsKnown DEF TypeOK
  <2>4. ASSUME pc[l] \in {"done", "failed"} PROVE tool[l] \in {"idle", "done"}
    BY <2>4 DEF Waiting
  <2>5. ASSUME pc[l] = "done"
        PROVE  options[l] = IF first = NoFile THEN Options(Updated(Empty)) ELSE Options(first)
    <3>1. Loads(file) /\ options[l] = Options(file)
      BY <2>1, <2>5 DEF Progress
    <3>2. CASE file = first
      BY <3>1, <3>2 DEF Loads
    <3>3. CASE file # first
      <4>1. tool[l] = "done" /\ file = Updated(Base) /\ Loads(Base)
        BY <2>1, <2>4, <2>5, <3>3 DEF Stage
      <4>2. first = NoFile /\ Base = Empty
        BY <2>1, <4>1, BaseFacts DEF Progress
      <4> QED
        BY <3>1, <4>1, <4>2
    <3> QED
      BY <3>2, <3>3
  <2>6. ASSUME pc[l] = "failed"
        PROVE  first = Broken \/ (first = NoFile /\ ~(OsKnown /\ MayWrite(l)))
    <3>1. ~Loads(file) /\ tool[l] = "done" /\ ~Loads(first)
      BY <2>1, <2>4, <2>6 DEF Progress, Waiting
    <3>2. ~(OsKnown /\ Loads(Base) /\ file = Updated(Base))
      BY <2>1, <3>1, BaseFacts, UpdatedIsConf, ConfLoads
    <3> QED
      BY <2>1, <3>1, <3>2 DEF Stage, Loads
  <2> QED
    BY <2>2, <2>3, <2>5, <2>6
<1> QED
  BY <1>1, AloneInvariance, PTL

(* An upgraded file has nothing left to change.                            *)
LEMMA UpdatedTwice ==
  ASSUME NEW c, IsConf(c), OsKnown
  PROVE  Updated(Updated(c)) = Updated(c)
<1> DEFINE u == Updated(c)
<1>1. DOMAIN u = ToolKeys
  BY DEF Updated
<1>2. ASSUME NEW k \in ToolKeys \ TextKeys PROVE u[k] \notin Malformed
  <2>1. CASE k \in DOMAIN c
    BY <1>2, <2>1, ValAssumption DEF Updated, AsRead
  <2>2. CASE k \notin DOMAIN c
    BY <1>2, <2>2, DefaultsReadable DEF Updated
  <2> QED
    BY <2>1, <2>2
<1> HIDE DEF u
<1>3. Updated(u) = [k \in ToolKeys |-> u[k]]
  BY <1>1, <1>2 DEF Updated, AsRead
<1>4. u = [k \in ToolKeys |-> u[k]]
  BY DEF u, Updated
<1> QED
  BY <1>3, <1>4 DEF u

(* What an upgrade that nobody disturbed has left.                         *)
LEMMA Upgraded ==
  ASSUME TypeOK, AloneInv, ~died, Idle(Loader), tool[Postinst] = "done", first # Broken
  PROVE  /\ first \in InitConfs
         /\ Loads(Base) /\ IsConf(Base)
         /\ OsKnown => file = Updated(Base)
         /\ ~OsKnown => file = first
<1>1. Postinst \in Tool /\ Stage(Postinst) /\ first \in InitConfs
  BY DEF AloneInv, Alone, Idle, Tool
<1>2. MayWrite(Postinst)
  BY DEF MayWrite
<1> QED
  BY <1>1, <1>2, BaseFacts DEF Stage

(* An upgrade that nobody disturbs completes: all keys of the tool, each   *)
(* readable entry as it was, the system's default for each missing one     *)
(* (update_conf).                                                          *)
THEOREM UpgradesComplete == Spec => []UpgradeCompletes
<1>1. TypeOK /\ Waiting /\ AloneInv => UpgradeCompletes
  <2> SUFFICES ASSUME TypeOK, AloneInv, ~died, Idle(Loader), tool[Postinst] = "done",
                      Recognised, first # Broken
               PROVE  /\ Loads(file) /\ DOMAIN file = ToolKeys
                      /\ file = Updated(file)
                      /\ \A k \in ToolKeys :
                            IF first # NoFile /\ k \in DOMAIN first
                            THEN first[k] \notin Malformed => file[k] = first[k]
                            ELSE file[k] = OsDefault[k]
    BY DEF UpgradeCompletes
  <2>1. OsKnown /\ IsConf(Base) /\ file = Updated(Base) /\ first \in InitConfs
    BY Upgraded, RecognisedIsKnown DEF TypeOK
  <2>2. Loads(file) /\ DOMAIN file = ToolKeys /\ file = Updated(file)
    BY <2>1, UpdatedIsConf, UpdatedTwice, ConfLoads
  <2>3. ASSUME NEW k \in ToolKeys
        PROVE  IF first # NoFile /\ k \in DOMAIN first
               THEN first[k] \notin Malformed => file[k] = first[k]
               ELSE file[k] = OsDefault[k]
    <3>1. CASE first = NoFile
      <4>1. k \notin DOMAIN Base
        BY <2>1, <3>1, BaseFacts DEF Empty
      <4> QED
        BY <2>1, <3>1, <4>1 DEF Updated
    <3>2. CASE first # NoFile
      BY <2>1, <3>2, BaseFacts DEF Updated, AsRead
    <3> QED
      BY <3>1, <3>2
  <2> QED
    BY <2>2, <2>3
<1> QED
  BY <1>1, AloneInvariance, PTL

(* On every system each default of the tool is at least as strict as that  *)
(* of the library.                                                         *)
LEMMA DefaultsAsStrict ==
  ASSUME OsKnown, NEW k \in ToolKeys
  PROVE  AsStrict(k, OsDefault[k], LibDefault[k])
<1> USE DEF STRONG_PASSWORD, FIRST_LETTER_UPPERCASE, PASSWORD_MIN_LENGTH,
            PASSWORD_MAX_LENGTH, VALIDATE_POLICY, VALIDATE_REQUIRED, DICT_PATH, RuleKeys
<1>1. PICK type \in {"OS_PROFESSIONAL", "OS_SERVER", "OS_EULER"} : OsDefault = default_conf[type]
  BY KnownTypes DEF OsKnown, OsType, OsDefault
<1> DEFINE strict == type \in Servers
<1>2. OsDefault = Row(strict) /\ strict \in BOOLEAN
  BY <1>1 DEF default_conf
<1> HIDE DEF strict
<1>3. k \in Key /\ k \notin StrengthKeys
  BY DEF ToolKeys
<1>4. k \in {STRONG_PASSWORD, FIRST_LETTER_UPPERCASE, VALIDATE_POLICY, DICT_PATH,
             PASSWORD_MIN_LENGTH, PASSWORD_MAX_LENGTH, VALIDATE_REQUIRED,
             "PALINDROME_NUM", "WORD_CHECK", "MONOTONE_CHARACTER_NUM",
             "CONSECUTIVE_SAME_CHARACTER_NUM"}
  BY <1>3, KeyAssumption DEF Key, ServiceKeys
<1>5. CASE k \in {STRONG_PASSWORD, FIRST_LETTER_UPPERCASE, VALIDATE_POLICY, DICT_PATH}
  <2>1. Row(strict)[k] = LibDefault[k]
    BY <1>3, <1>5 DEF Row, LibDefault
  <2> QED
    BY <1>2, <1>5, <2>1 DEF AsStrict
<1>6. CASE k = PASSWORD_MAX_LENGTH
  <2>1. Row(strict)[k] = 510 /\ LibDefault[k] = 512
    BY <1>3, <1>6 DEF Row, LibDefault
  <2> QED
    BY <1>2, <1>6, <2>1 DEF AsStrict
<1>7. CASE k \in {PASSWORD_MIN_LENGTH, VALIDATE_REQUIRED, "WORD_CHECK"}
  <2>1. LibDefault[k] \in {0, 1} /\ Row(strict)[k] \in Nat /\ Row(strict)[k] >= LibDefault[k]
    BY <1>2, <1>3, <1>7 DEF Row, LibDefault
  <2> QED
    BY <1>2, <1>7, <2>1 DEF AsStrict
<1>8. CASE k \in RuleKeys \ {"WORD_CHECK"}
  <2>1. LibDefault[k] = 0
    BY <1>3, <1>8 DEF LibDefault
  <2> QED
    BY <1>8, <2>1 DEF AsStrict
<1> QED
  BY <1>4, <1>5, <1>6, <1>7, <1>8

(* On no system does an upgrade that nobody disturbs weaken a rule that    *)
(* was set or left to the library, but for a switch that cannot be read    *)
(* (default_conf, update_conf).                                            *)
THEOREM UpgradesAreSafe == Spec => []UpgradesNeverWeaken
<1>1. TypeOK /\ Waiting /\ AloneInv => UpgradesNeverWeaken
  <2> SUFFICES ASSUME TypeOK, AloneInv, ~died, Idle(Loader), tool[Postinst] = "done",
                      Loads(first), NEW k \in Key
               PROVE  IF k \in DOMAIN first
                      THEN k \in ToolKeys /\ (k \in BoolKeys => first[k] \notin Malformed) =>
                              Options(file)[k] = Options(first)[k]
                      ELSE AsStrict(k, Options(file)[k], LibDefault[k])
    BY DEF UpgradesNeverWeaken
  <2>1. /\ first \in InitConfs /\ first # NoFile /\ first # Broken /\ Base = first
        /\ OsKnown => file = Updated(first)
        /\ ~OsKnown => file = first
    BY Upgraded, BaseFacts DEF Loads
  <2>2. AsStrict(k, LibDefault[k], LibDefault[k])
    <3>1. LibDefault[k] \in Nat \/ k \notin {PASSWORD_MAX_LENGTH, PASSWORD_MIN_LENGTH,
                                            VALIDATE_REQUIRED} \cup RuleKeys
      BY DEF LibDefault, STRONG_PASSWORD, FIRST_LETTER_UPPERCASE, PASSWORD_MIN_LENGTH,
             PASSWORD_MAX_LENGTH, VALIDATE_POLICY, VALIDATE_REQUIRED, DICT_PATH, RuleKeys,
             StrengthKeys, Standard
    <3> QED
      BY <3>1 DEF AsStrict, RuleKeys
  <2>3. CASE ~OsKnown
    BY <2>1, <2>2, <2>3 DEF Options
  <2>4. CASE OsKnown /\ k \in DOMAIN first
    BY <2>1, <2>4, ValAssumption DEF Options, Updated, AsRead
  <2>5. CASE OsKnown /\ k \in ToolKeys \ DOMAIN first
    <3>1. file[k] = OsDefault[k] /\ k \in DOMAIN file
      BY <2>1, <2>5 DEF Updated
    <3>2. k \in TextKeys \/ file[k] \notin Malformed
      BY <2>5, <3>1, DefaultsReadable
    <3>3. Options(file)[k] = OsDefault[k]
      BY <3>1, <3>2 DEF Options, AsRead
    <3> QED
      BY <2>5, <3>3, DefaultsAsStrict
  <2>6. CASE OsKnown /\ k \notin ToolKeys /\ k \notin DOMAIN first
    <3>1. k \notin DOMAIN file
      BY <2>1, <2>6 DEF Updated
    <3> QED
      BY <2>2, <2>6, <3>1 DEF Options
  <2> QED
    BY <2>3, <2>4, <2>5, <2>6
<1> QED
  BY <1>1, AloneInvariance, PTL
=============================================================================
