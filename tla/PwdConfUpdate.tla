--------------------------- MODULE PwdConfUpdate ---------------------------
(***************************************************************************)
(* How processes that check passwords read dde.conf (load_pwd_conf of      *)
(* lib/deepin_pw_check.c), together with those that write it: the upgrade  *)
(* tool pwd-conf-update (tool/pwd_conf_update.c), which a failing load     *)
(* starts and which the packages run when they are installed, and a setter *)
(* of the D-Bus service.                                                   *)
(*                                                                         *)
(* None of them locks the file.  A step is what happens between two points *)
(* at which another process can change the file.                           *)
(***************************************************************************)
EXTENDS PwSystem

CONSTANTS Loader,        \* processes that load the configuration, each once
          Postinst,      \* the run of the tool by the package
          Upgrades,      \* is there one?
          Root,          \* the loaders that may write /etc/deepin
          Garbage,       \* what an uninitialised buffer happens to hold
          InitConfs,     \* what dde.conf may hold at first
          OsVersions,    \* what /etc/os-version may hold
          SetterArg      \* the entries of the setter, Empty for no setter

Tool == Loader \cup {Postinst}

ASSUME ProcessAssumption == /\ Root \subseteq Loader /\ Postinst \notin Loader
                            /\ Upgrades \in BOOLEAN
ASSUME InitAssumption == \A c \in InitConfs : IsContent(c)
ASSUME SetterAssumption == /\ IsConf(SetterArg)
                           /\ DOMAIN SetterArg \subseteq ServiceKeys
ASSUME GarbageAssumption == /\ Garbage \in Val \ Malformed
                            /\ Garbage # DefaultPolicy
                            /\ \A c \in {SetterArg} \cup (InitConfs \ {NoFile, Broken}) :
                                  Garbage \notin {c[k] : k \in DOMAIN c}
ASSUME OsAssumption ==
    \A v \in OsVersions \ {NoFile, Broken} :
        "OsBuild" \in DOMAIN v => v["OsBuild"] \in Seq(BuildChar)

VARIABLES file,    \* the content of dde.conf
          pc,      \* where each loader is
          retried, \* the loaders with retry_cnt = 1
          options, \* what each loader read
          tool,    \* where each run of the tool is
          dic,     \* what it loaded, its VALIDATE_POLICY read once more
          setter,  \* where the setter is
          kf       \* what it will save

(* History variables: no step depends on them.                             *)
VARIABLES first,   \* what dde.conf held at first
          died,    \* was a process killed, or did one fail to start?
          moved,   \* did the file change between two openings of it by one
                   \* load, of the library or of a tool?
          apart    \* did no process load the file to rewrite it while
                   \* another was about to rewrite it?

(* It does not change.                                                     *)
VARIABLE os_version  \* what /etc/os-version holds

loaders == <<pc, retried, options>>
tools == <<tool, dic>>
service == <<setter, kf>>
once == <<first, os_version>>
history == <<once, died>>
watch == <<moved, apart>>
vars == <<file, loaders, tools, service, history, watch>>

OsType == get_current_os_type(os_version)
OsKnown == Known(OsType)
OsDefault == default_conf[OsType]

(***************************************************************************)
(* Reading and rewriting a content                                         *)
(***************************************************************************)
(* The library takes its default for a switch that it cannot read.         *)
Options(content) ==
    [k \in Key |-> IF k \in DOMAIN content
                   THEN AsRead(k, content[k], LibDefault[k]) ELSE LibDefault[k]]

(* get_validate_policy: what the buffer holds after scanning the file for  *)
(* the line.  Without the line it stays as it was, uninitialised.  In a    *)
(* torn file the line may be anything.                                     *)
Policies(content) ==
    CASE content = Broken -> Val
      [] content = NoFile -> {Garbage}
      [] OTHER -> IF VALIDATE_POLICY \in DOMAIN content
                  THEN {content[VALIDATE_POLICY]} ELSE {Garbage}

(* A missing boolean is written as "false".                                *)
Updated_MissingIsFalse(conf) ==
    [k \in ToolKeys |-> IF k \in DOMAIN conf THEN AsRead(k, conf[k], No)
                       ELSE IF k \in BoolKeys THEN No ELSE OsDefault[k]]

(* Missing entries are not added.                                          *)
Updated_OnlyFound(conf) ==
    [k \in ToolKeys \cap DOMAIN conf |-> AsRead(k, conf[k], No)]

(* A server gets the minimum length of its row back.                       *)
Updated_ServerRestores(conf) ==
    [k \in ToolKeys |->
        IF k \in DOMAIN conf /\ ~(OsType = "OS_SERVER" /\ k = PASSWORD_MIN_LENGTH)
        THEN AsRead(k, conf[k], No) ELSE OsDefault[k]]

(* update_conf writes its own keys, with what it read or the defaults; a   *)
(* switch it cannot read becomes "false".                                  *)
Updated(conf) ==
    [k \in ToolKeys |-> IF k \in DOMAIN conf THEN AsRead(k, conf[k], No)
                                             ELSE OsDefault[k]]

(***************************************************************************)
(* Loading                                                                 *)
(***************************************************************************)
Init ==
    /\ file \in InitConfs
    /\ pc = [l \in Loader |-> "idle"]
    /\ retried = {}
    /\ options = [l \in Loader |-> LibDefault]
    /\ tool = [t \in Tool |-> "idle"]
    /\ dic = [t \in Tool |-> Empty]
    /\ setter = "idle"
    /\ kf = Empty
    /\ first = file
    /\ os_version \in OsVersions
    /\ died = FALSE
    /\ moved = FALSE
    /\ apart = TRUE

LoaderAt(l, from, to) == pc[l] = from /\ pc' = [pc EXCEPT ![l] = to]

(* Somebody who has opened the file once is about to open it again for its *)
(* VALIDATE_POLICY; somebody has loaded the file and is about to rewrite   *)
(* it.                                                                     *)
BetweenOpens == \/ \E l \in Loader : pc[l] = "policy"
                \/ \E t \in Tool : tool[t] = "policy"

MayWrite(t) == t \in Root \cup {Postinst}

Rewriter == {t \in Tool : /\ MayWrite(t)
                          /\ tool[t] \in {"policy", "open", "write"}}

Rewriting == Rewriter # {} \/ setter \in {"truncate", "write"}

(* What a step that changes the file, and one that loads it, means for the *)
(* history.                                                                *)
ChangesFile == /\ moved' = (moved \/ (file' # file /\ BetweenOpens))
               /\ UNCHANGED apart

LoadsToRewrite == apart' = (apart /\ ~Rewriting) /\ UNCHANGED moved

ToolAt(t, from, to) == tool[t] = from /\ tool' = [tool EXCEPT ![t] = to]

(* deepin_pw_check is called.                                              *)
Call(l) ==
    /\ LoaderAt(l, "idle", "load")
    /\ UNCHANGED <<file, retried, options, tools, service, history, watch>>

(* iniparser_load succeeds.  When there is a VALIDATE_POLICY the file is   *)
(* opened once more to read it.                                            *)
Load(l) ==
    /\ Loads(file)
    /\ LoaderAt(l, "load", IF VALIDATE_POLICY \in DOMAIN file
                           THEN "policy" ELSE "done")
    /\ options' = [options EXCEPT ![l] = Options(file)]
    /\ UNCHANGED <<file, retried, tools, service, history, watch>>

LoadPolicy(l) ==
    /\ LoaderAt(l, "policy", "done")
    /\ \E p \in Policies(file) :
          options' = [options EXCEPT ![l][VALIDATE_POLICY] = p]
    /\ UNCHANGED <<file, retried, tools, service, history, watch>>

(* It fails for the first time: fork, exec of the tool, waitpid, retry.    *)
Fork(l) ==
    /\ ~Loads(file)
    /\ l \notin retried
    /\ retried' = retried \cup {l}
    /\ LoaderAt(l, "load", "wait")
    /\ ToolAt(l, "idle", IF OsKnown THEN "access" ELSE "done")
    /\ UNCHANGED <<file, options, dic, service, history, watch>>

(* fork or execv fails.                                                    *)
ForkFails(l) ==
    /\ ~Loads(file)
    /\ l \notin retried
    /\ retried' = retried \cup {l}
    /\ LoaderAt(l, "load", "load")
    /\ died' = TRUE
    /\ UNCHANGED <<file, options, tools, service, once, watch>>

(* The load is not tried again.                                            *)
Wait_GivesUp(l) ==
    /\ tool[l] = "done"
    /\ LoaderAt(l, "wait", "failed")
    /\ UNCHANGED <<file, retried, options, tools, service, history, watch>>

(* The attempt is not counted.                                             *)
Wait_DoesNotCount(l) ==
    /\ tool[l] = "done"
    /\ LoaderAt(l, "wait", "load")
    /\ retried' = retried \ {l}
    /\ tool' = [tool EXCEPT ![l] = "idle"]
    /\ UNCHANGED <<file, options, dic, service, history, watch>>

(* waitpid returns; goto retry.                                            *)
Wait(l) ==
    /\ tool[l] = "done"
    /\ LoaderAt(l, "wait", "load")
    /\ UNCHANGED <<file, retried, options, tools, service, history, watch>>

(* It fails again: PW_ERR_PARA.                                            *)
LoadFails(l) ==
    /\ ~Loads(file)
    /\ l \in retried
    /\ LoaderAt(l, "load", "failed")
    /\ UNCHANGED <<file, retried, options, tools, service, history, watch>>

(***************************************************************************)
(* The upgrade tool                                                        *)
(***************************************************************************)
Upgrade ==
    /\ Upgrades
    /\ ToolAt(Postinst, "idle", IF OsKnown THEN "access" ELSE "done")
    /\ UNCHANGED <<file, loaders, dic, service, history, watch>>

Access(t) ==
    /\ ToolAt(t, "access", IF file = NoFile THEN "create" ELSE "load")
    /\ UNCHANGED <<file, loaders, dic, service, history, watch>>

(* A missing file is not created.                                          *)
Create_OnlyOpens(t) ==
    /\ ToolAt(t, "create", IF MayWrite(t) THEN "load" ELSE "done")
    /\ UNCHANGED <<file, loaders, dic, service, history, watch>>

(* fopen(..., "a") and the line "[Password]", which adds no entry to what  *)
(* another process may have written meanwhile.                             *)
Create(t) ==
    /\ ToolAt(t, "create", IF MayWrite(t) THEN "load" ELSE "done")
    /\ file' = IF MayWrite(t) /\ file = NoFile THEN Empty ELSE file
    /\ UNCHANGED <<loaders, dic, service, history>>
    /\ ChangesFile

ToolLoad(t) ==
    /\ ToolAt(t, "load", CASE ~Loads(file) -> "done"
                           [] Loads(file) /\ VALIDATE_POLICY \in DOMAIN file -> "policy"
                           [] OTHER -> "open")
    /\ dic' = IF Loads(file) THEN [dic EXCEPT ![t] = file] ELSE dic
    /\ UNCHANGED <<file, loaders, service, history>>
    /\ IF MayWrite(t) THEN LoadsToRewrite ELSE UNCHANGED watch

ToolPolicy(t) ==
    /\ ToolAt(t, "policy", "open")
    /\ \E p \in Policies(file) : dic' = [dic EXCEPT ![t][VALIDATE_POLICY] = p]
    /\ UNCHANGED <<file, loaders, service, history, watch>>

(* fopen(..., "w") truncates.                                              *)
Open(t) ==
    /\ ToolAt(t, "open", IF MayWrite(t) THEN "write" ELSE "done")
    /\ file' = IF MayWrite(t) THEN Empty ELSE file
    /\ UNCHANGED <<loaders, dic, service, history>>
    /\ ChangesFile

(* fwrite and fclose.  What an uninitialised buffer holds need not be INI. *)
ToolWrite(t) ==
    /\ ToolAt(t, "write", "done")
    /\ file' \in Overlay(file, Updated(dic[t])) \cup
                 IF VALIDATE_POLICY \in DOMAIN dic[t] /\ dic[t][VALIDATE_POLICY] = Garbage
                 THEN {Broken} ELSE {}
    /\ UNCHANGED <<loaders, dic, service, history>>
    /\ ChangesFile

Killed(t) ==
    /\ tool[t] \notin {"idle", "done"}
    /\ tool' = [tool EXCEPT ![t] = "done"]
    /\ died' = TRUE
    /\ UNCHANGED <<file, loaders, dic, service, once, watch>>

(***************************************************************************)
(* One setter of the service, on the same file                             *)
(***************************************************************************)
SetterLoad ==
    /\ SetterArg # Empty
    /\ setter = "idle"
    /\ Loads(file)
    /\ kf' = Override(file, SetterArg)
    /\ setter' = "truncate"
    /\ UNCHANGED <<file, loaders, tools, history>>
    /\ LoadsToRewrite

SetterTruncate ==
    /\ setter = "truncate"
    /\ file' = Empty
    /\ setter' = "write"
    /\ UNCHANGED <<kf, loaders, tools, history>>
    /\ ChangesFile

SetterWrite ==
    /\ setter = "write"
    /\ file' \in Overlay(file, kf)
    /\ setter' = "done"
    /\ UNCHANGED <<kf, loaders, tools, history>>
    /\ ChangesFile

LoadStep(l) == \/ Load(l) \/ LoadPolicy(l) \/ Fork(l) \/ ForkFails(l)
               \/ Wait(l) \/ LoadFails(l)

ToolStep(t) == \/ Access(t) \/ Create(t) \/ ToolLoad(t) \/ ToolPolicy(t)
               \/ Open(t) \/ ToolWrite(t)

Next == \/ \E l \in Loader : Call(l) \/ LoadStep(l)
        \/ Upgrade
        \/ \E t \in Tool : ToolStep(t) \/ Killed(t)
        \/ SetterLoad \/ SetterTruncate \/ SetterWrite

Spec == Init /\ [][Next]_vars

(* The processes run; nothing makes anybody start one.                     *)
FairSpec == /\ Spec
            /\ \A l \in Loader : WF_vars(LoadStep(l))
            /\ \A t \in Tool : WF_vars(ToolStep(t))

(***************************************************************************)
(* Properties                                                              *)
(***************************************************************************)
TypeOK ==
    /\ IsContent(file)
    /\ pc \in [Loader -> {"idle", "load", "policy", "wait", "done", "failed"}]
    /\ retried \subseteq Loader
    /\ options \in [Loader -> [Key -> Val]]
    /\ tool \in [Tool -> {"idle", "access", "create", "load", "policy", "open",
                          "write", "done"}]
    /\ DOMAIN dic = Tool
    /\ \A t \in Tool : IsConf(dic[t])
    /\ setter \in {"idle", "truncate", "write", "done"}
    /\ IsConf(kf)
    /\ IsContent(first)
    /\ died \in BOOLEAN /\ moved \in BOOLEAN /\ apart \in BOOLEAN
    /\ os_version \in OsVersions

(* The values of k that somebody put into dde.conf, as they are or as they *)
(* are read, or takes for a missing entry.                                 *)
Sources(k) ==
    {LibDefault[k]}
    \cup {OsDefault[j] : j \in IF OsKnown THEN {k} \cap ToolKeys ELSE {}}
    \cup UNION {UNION {{c[j], AsRead(j, c[j], No)} : j \in {k} \cap DOMAIN c} :
                c \in {SetterArg} \cup ({first} \ {NoFile, Broken})}

(* Somebody put one of the values in V into the entry k.                   *)
Configured(k, V) == \E c \in {SetterArg} \cup ({first} \ {NoFile, Broken}) :
                       k \in DOMAIN c /\ c[k] \in V

Rewritten == \E t \in Tool : MayWrite(t) /\ tool[t] = "done"

(* Whatever races with the load and dies meanwhile, an option is the       *)
(* library's or the system's default or a value somebody configured.  That *)
(* holds of VALIDATE_POLICY, which every load reads from a second opening  *)
(* of the file, as long as the file never changed between two openings.    *)
(* The check is off only if somebody turned it off or, once a tool has     *)
(* rewritten the file, somebody left a switch that cannot be read.         *)
OptionsHaveASource ==
    \A l \in Loader : pc[l] = "done" =>
        /\ \A k \in Key :
              k # VALIDATE_POLICY \/ ~moved => options[l][k] \in Sources(k)
        /\ options[l][STRONG_PASSWORD] = No =>
              \/ Configured(STRONG_PASSWORD, {No})
              \/ Configured(STRONG_PASSWORD, Malformed) /\ Rewritten

(* What the setter has saved stays in the file, as it is or as it is read, *)
(* however many tools rewrite the file afterwards, unless a process loaded *)
(* the file to rewrite it while another was about to, or died.             *)
SettingsSurvive ==
    apart /\ ~died /\ setter = "done" /\ (\A t \in Tool : tool[t] # "write") =>
        /\ Loads(file)
        /\ \A k \in DOMAIN SetterArg :
              /\ k \in DOMAIN file
              /\ file[k] \in {SetterArg[k], AsRead(k, SetterArg[k], No)}

(* The build number names a system that the tool has defaults for.         *)
Recognised ==
    \/ os_version = NoFile
    \/ /\ Loads(os_version)
       /\ Len(OsBuild(os_version)) >= 4
       /\ OsBuild(os_version)[2] \in {"1", "2", "3"}

(* As long as nobody dies, a load with the right to write /etc/deepin     *)
(* fails only on a file that is there and is not INI.                      *)
PrivilegedLoadsFindAFile ==
    [][\A l \in Root : /\ pc[l] # "failed" /\ pc'[l] = "failed"
                       /\ Recognised /\ ~died'
                       => file = Broken]_vars

(* The loaders in L and the setter have not started.                       *)
Idle(L) == setter = "idle" /\ \A l \in L : pc[l] = "idle"

(* A load that nobody disturbs gets exactly what dde.conf says and the     *)
(* library's defaults for the rest; from a missing file, once the tool has *)
(* created it, the system's defaults.  It fails only if there is no file   *)
(* and none could be created, or the file is not INI.                      *)
UndisturbedLoadIsExact ==
    \A l \in Loader : ~died /\ Idle(Loader \ {l}) /\ tool[Postinst] = "idle" =>
        /\ pc[l] = "done" =>
              options[l] = IF first = NoFile THEN Options(Updated(Empty))
                                             ELSE Options(first)
        /\ pc[l] = "failed" => \/ first = Broken
                               \/ first = NoFile /\ ~(Recognised /\ l \in Root)

(* An upgrade that nobody disturbs leaves a file with all the keys of the  *)
(* tool, keeps what the library reads from each entry it can read, adds    *)
(* the system's default for each missing one, and has nothing to do the    *)
(* next time.                                                              *)
UpgradeCompletes ==
    /\ ~died /\ Idle(Loader)
    /\ tool[Postinst] = "done" /\ Recognised /\ first # Broken
    =>  /\ Loads(file) /\ DOMAIN file = ToolKeys
        /\ file = Updated(file)
        /\ \A k \in ToolKeys :
              IF first # NoFile /\ k \in DOMAIN first
              THEN first[k] \notin Malformed => file[k] = first[k]
              ELSE file[k] = OsDefault[k]

(* The tool never touches dde.conf on a system it does not recognise: it   *)
(* would look for the defaults outside of its table.                       *)
UnknownSystemsAreLeftAlone == [][~Recognised /\ setter' = setter => file' = file]_vars

(* Does option k become at least as strict with n as it was with m?  Zero  *)
(* is off for the length of a run, and less is stricter for the others.    *)
AsStrict(k, n, m) ==
    CASE k = PASSWORD_MAX_LENGTH -> n <= m
      [] k \in {PASSWORD_MIN_LENGTH, VALIDATE_REQUIRED, "WORD_CHECK"} -> n >= m
      [] k \in RuleKeys \ {"WORD_CHECK"} -> m = 0 \/ n \in 1 .. m
      [] OTHER -> n = m

(* The tool writes explicitly what the library took for granted, from      *)
(* another table of defaults.  On no system does an upgrade that nobody    *)
(* disturbs make a rule weaker that the administrator had set or left to   *)
(* the library, unless by a switch that cannot be read.  (The four         *)
(* strength keys it drops.)                                                *)
UpgradesNeverWeaken ==
    ~died /\ Idle(Loader) /\ tool[Postinst] = "done" /\ Loads(first) =>
        \A k \in Key :
            IF k \in DOMAIN first
            THEN k \in ToolKeys /\ (k \in BoolKeys => first[k] \notin Malformed) =>
                    Options(file)[k] = Options(first)[k]
            ELSE AsStrict(k, Options(file)[k], LibDefault[k])

(* A load ends, whatever the others do to the file and whoever dies.       *)
EveryLoadEnds == \A l \in Loader : pc[l] = "load" ~> pc[l] \in {"done", "failed"}

(* What the design document says and the code does not do.                 *)

(* technical_solution.md:34: if dde.conf does not exist, a default         *)
(* configuration for the product and the system is generated, written and  *)
(* used from then on.                                                      *)
MissingGivesDefaults ==
    \A l \in Loader : first = NoFile /\ pc[l] = "done" /\ ~died =>
        \A k \in ToolKeys : options[l][k] = OsDefault[k]
=============================================================================
