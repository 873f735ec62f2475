# deepin-pw-check in TLA+

deepin-pw-check decides whether a new password is good enough for a deepin
system. This directory holds TLA+ models of its parts, the TLC runs that check
them on small instances, and TLAPS proofs of the main results for every value
of the constants. Source references are `path:line` in the repository.

`tlc -config X.cfg M.tla` repeats a run and `tlapm M.tla` a proof; PROJECT.json
lists the runs with their properties, the source lines of every definition,
the mutants, the hazards, the findings and the theorems.

## The system

Everything turns around one file, `/etc/deepin/dde.conf`.

| Part | Source | State it keeps | Operations | Who calls it |
|---|---|---|---|---|
| D-Bus service `org.deepin.dde.PasswdConf1` | `service/` | none besides the file and `dde.conf.bak`; each call in flight has a KeyFile object | 14 methods: five setters, five getters, ReadConfig, WriteConfig, Reset, Backup | control center, through the bus |
| PAM module | `pam/pam.c` | the loop of one password change; libpam keeps PAM_AUTHTOK | `pam_sm_chauthtok` | libpam, for `passwd` |
| check library | `lib/deepin_pw_check.c` | none between calls, except the static buffer of `err_to_string` | `deepin_pw_check`, `err_to_string`, `get_new_passwd_strength_level`, getters of the limits, a `_grub2` variant of each | PAM module, installer, control center |
| configuration loading | `lib/deepin_pw_check.c:103` | one retry | `load_pwd_conf` | every function of the library |
| upgrade tool `pwd-conf-update` | `tool/pwd_conf_update.c` | its dictionary of the file | `update_conf` | the package's postinst, and `load_pwd_conf` when the file cannot be loaded |
| strength levels and messages | `lib/deepin_pw_check.c:500`, `:720` | the static buffer, the Options on the heap | `get_new_passwd_strength_level`, `err_to_string`, the getters | control center, installer, PAM module |
| word rule | `lib/word_check.c` | none | `word_check`: some three hundred rules for disguised words, looked up in a cracklib dictionary | check library |
| comparison with stored hashes | `lib/passwd_compare.c`, `bigcrypt.c`, `md5_crypt.c`, `md5.c` | none | `verify_pwd` | nobody: the call in `pam.c` is commented out |

How they interact: the service, the tool and the library open, truncate, write
and read the same file, and nobody takes a lock. The service runs each method in
a goroutine of its own. `load_pwd_conf` forks the tool and waits for it. The
PAM module asks the library again in each iteration of its loop, and each time
the library reads the file anew.

What is hard here, and what makes each part correct:

- **Service.** Calls interleave between reading, truncating and writing; polkit
  may keep a call waiting; a disk may be full; `main.go:19` lets the bus library
  stop the process after 30 seconds whatever is in flight. Right means: a file
  always comes from one save, a save does what was asked, nothing changes
  without authorisation, success is not reported for what was not stored,
  and every call ends.
- **PAM module.** The loop (`pam.c:98`) goes on after an accepted password, checks it
  again and may meet another configuration. Right means: only an accepted password
  gets stored, PAM_SUCCESS is about the password libpam holds, the module gives up
  only when a prompt failed or the tries are used up, leaves no password behind then,
  and returns.
- **Rules.** Small loops with indices, counters and neighbours at the edge. Right
  means: each decides what its name says, for passwords of any length, and the
  check as a whole says "no error" only when no rule is broken.
- **Words, strength and hashes.** Tables and index arithmetic by hand. Right means: no
  listed disguise hides a word, a longer password is never weaker, what a strict check
  accepts is not shown as weak, a hash accepts the passwords it stands for and no others,
  and the policy comes out of the file as it was put in.
- **Messages.** Threads of one process share a static buffer, and the file is read anew for
  the numbers of a message. Right means: who meets nobody gets its own message, its
  numbers are those the password was measured against unless the file changed, and
  what a check allocates is freed.
- **Loading and upgrading.** Two opens of one file, a retry, a child process that
  rewrites the file other processes are reading, two tables of defaults, and a system
  version that may be missing or unknown. Right means: options come from somewhere, an
  undisturbed load reads what the file says, an upgrade loses nothing it knows
  and weakens no rule, what a setter saved outlasts the upgrades after it, an unknown
  system is left alone, and no load waits forever.

PROJECT.json lists these as hazards, each at its line.

## The modules

| Module | Models | Proofs |
|---|---|---|
| `PwConf` | the content of dde.conf, what loads, what a write on top of another write leaves | |
| `ConfCalls` | the methods as data: keys, source and target file, effect, reply | |
| `ConfService` | the service: all methods, concurrent, with faults | `ConfServiceProofs` |
| `AtomicConf` | what the service promises when saves do not overlap | `ConfServiceProofs` |
| `PamChauthtok` | one password change through the PAM module | `PamChauthtokProofs` |
| `PwInput` | the password, a C string | |
| `PwPalindrome` | `is_palindrome`, `is_include_palindrome` | `PwPalindromeProofs` |
| `PwConsecutive` | `is_consecutive_same_character` | `PwRunsProofs` |
| `PwMonotone` | `get_adjacent_character`, `is_monotone_character` | `PwRunsProofs` |
| `PwTypes` | `include_chinese`, `is_type_valid` with its use of strtok | |
| `PwWord` | `word_check`: the table of disguises, and what it is for | |
| `PwCheck` | `deepin_pw_check_by_conf`, composed of the five above | `PwCheckProofs`, also about `PwTypes`, `PwWord` |
| `PwStrength` | the strength level of a password | `PwLibraryProofs` |
| `PwHash` | `verify_pwd`, `bigcrypt`, `crypt_md5`'s salt | `PwLibraryProofs` |
| `PwPolicyLine` | `get_validate_policy`: a policy's way into the file and out of it | `PwLibraryProofs` |
| `PwLibrary` | the check beside the strength, the hashes and the policy lines | `PwLibraryProofs` |
| `PwCallers` | the public functions as threads of one process call them | `PwCallersProofs` |
| `PwSystem` | the keys and defaults of library and tool, the detection of the system | |
| `PwdConfUpdate` | `load_pwd_conf`, the upgrade tool, and a setter of the service, as processes | `PwdConfUpdateProofs` |
| `MC*` | the instances for TLC | |

An operator with a suffix after an underscore, such as `Edited_OldWins`, is not part
of a specification: it is the definition of that name with a plausible bug.
Each property is paired in PROJECT.json with such a variant that violates it.

### dde.conf (`PwConf`)

A content is a partial function from keys to values, or `NoFile`, or `Broken`
(bytes that do not parse). A file of zero bytes parses and has no key: this is
what both parsers do with what `O_TRUNC` leaves, and most of the trouble in the
system comes from it. `Overlay` is a write at offset 0 over bytes that somebody
else wrote after the truncation: the new content, the new content with some old entries
left at the end, or a torn line. Values are opaque; `Malformed` ones are those
that GetInt, GetBool and iniparser's booleans refuse.

### The service (`ConfCalls`, `ConfService`, `AtomicConf`)

`pc[c]` is the step of call `c`: `auth` (checkAuth, service.go:92), `load`
(LoadFromFile and the change of the KeyFile object), `truncate` and `write`
(SaveToFile and ioutil.WriteFile open with O_TRUNC and then write), and `reread`
for ReadConfig, which reads the file a second time (service.go:148). Getters do
not ask polkit. WriteConfig parses its argument and writes it verbatim. Reset and
Backup return `dbusutil.ToError(nil)` (service.go:313, 328), so `SaveFailed`
is a success for them. `Quit` is the 30-second timer or a kill, `Start` the activation.
The history variables `granted`, `version`, `mixed` and `stale` record who was
authorised, what the last save meant, whether saves overlapped, and which calls
work on a source that has changed. No guard reads them.

External, and modelled from how service.go uses them: the keyfile package,
polkit's answer, the bus, the file system, and the unit file
(`misc/systemd-service/deepin-passwd-conf.service`: `ProtectSystem=strict`,
`ReadWritePaths=-/etc/deepin/dde.conf`), which is `DirWritable = FALSE`.

### The PAM module (`PamChauthtok`)

One password change: the preliminary pass, then the update pass with its loop.
`item` is PAM_AUTHTOK: `pam_get_authtok` hands it out when set (`UseItem`) and
asks otherwise (`Ask`). When it fails the module returns its code at once (`AskFails`,
pam.c:102); one of these codes, PAM_AUTHTOK_ERR, is also the module's own for a change
whose passwords were all rejected. `policy` is the set of passwords dde.conf
accepts at the moment; `ConfigChange` replaces it at any time. `NextModule` is
the next module of the stack, which stores the item when this one, being requisite,
succeeded. `accepted`, `steady` and `unanswered` (did a prompt fail?) are history.

### The check (`PwCheck` and the rules)

`rule` is where `deepin_pw_check_by_conf` is. A rule that loops takes one step
per iteration, in its own module with its own variables; the others take one step.
Positions in the models count from 1, in the code from 0. Characters are signed, as
`char` is on the platforms the package is built for; `include_chinese` depends
on it. In PwMonotone, as in the code, a character without a key leaves `next` and `last`
as they were, and they start as 0. In PwTypes, the groups of VALIDATE_POLICY
are split by strtok at `;`, which is itself a symbol, so that two adjacent groups of symbols
are joined again. Whether the configuration can be loaded is left open (`LoadOptions`):
`PwdConfUpdate` is about that.

`PwWord` gives the table `r_destructors` as the set of texts it makes of a password
(`Mangled`): trimmed, without a class of characters, or with look-alikes replaced in any
combination. The 287 lines of combinations are one definition, `Combinations`: the table has every
combination with one letter for each look-alike. A dictionary is a set of words; one that does
not open makes `word_check` return -1. The reference is the other way round: `Disguises`
and `Pads` say when a password is a word in disguise.

`PwStrength`, `PwHash` and `PwPolicyLine` are functions without state. `PwHash` takes
crypt(3) and MD5 for functions that never collide, so that a hash is the list of what went into
it. `PwLibrary` adds no step: it puts these beside the check, whose passwords
and policies they share, and relates the verdict to the strength level.

### Callers and their messages (`PwCallers`)

A thread checks a password (`CallCheck`, `Load` or `LoadFails`, `CheckReturns`), asks for
the message (`CallErrToString`, then `ReadNumber` for each getter `err_to_string` calls),
or for the policy (`CallGetPolicy`), and prints what it was given. `out_buff` has two halves,
written in two steps; writing it from two threads is a data race, and any interleaving
of the halves may be printed. `heap` holds the Options that were allocated and not
freed. `Save` changes a file at any time. Which rule fails is open within what the
lengths and limits allow (`Verdicts`); PwCheck is about that. The histories `apart`
(threads whose message met no other) and `steady` (threads whose file is still as
loaded) guard nothing.

### Loading and upgrading (`PwSystem`, `PwdConfUpdate`)

Processes: loaders (some privileged), one run of the tool for each loader and one by
postinst, and one setter of the service. A loader that fails to load forks
the tool, waits and tries once more. When VALIDATE_POLICY is present it opens
the file again to read that line (`LoadPolicy`); if the line is gone,
the buffer is uninitialised and `Garbage` is what it holds. The tool goes through
`access`, `create` (which writes the line `[Password]` only), `load`, `policy`,
`open` (truncates) and `write`. `PwSystem` has the two tables of defaults, what iniparser
makes of an entry that is no number or no boolean (`AsRead`), and
`get_current_os_type`, whose argument is the content of os-version: a missing file is a
professional system, a broken one an error, and the digits of `OsBuild` choose the row. The tool
stops on a system it does not know (`OsKnown`). Killed tools and failing forks set the history
variable `died`; `first` is what the file held at first. Two more follow the races: `moved`
once the file changed between two openings of it by one load, and `apart` as long as nobody
loaded the file to rewrite it while another was about to. No guard reads any of the four.

## The runs

| Run | Question | Bounds | Size |
|---|---|---|---|
| `service_one_call` | does one call at a time implement `AtomicConf`? | 1 call at a time, arbitrarily many after each other, every method, both faults | 603k states, 30 s |
| `service_races` | what do concurrent calls still guarantee, and do they end? | 2 calls at a time, arbitrarily many after each other: a setter, WriteConfig, Reset, Backup, ReadConfig, a getter; both faults; a file of one key and one that the calls add | 562k states, 1 min |
| `service_two_setters` | does a setter keep what another one has set? **violated** | 2 calls | |
| `service_backup` | does a successful Backup leave a backup? **violated** | 1 call, read-only directory | |
| `pam_dialog` | is the result of a password change truthful? | 3 passwords, 4 configurations, retry = -1, 0, 1, 3 | seconds |
| `pam_retry` | also when the configuration changes? **violated** | the same | |
| `check_rules` | do the rules, the whole check, the strength, the hashes and the policy lines decide what they should? | all passwords up to 3 of 6 characters, longer ones of 2, a few more; 6 configurations, 2 policies, 3 standards; secrets of 0 to 131 characters | 409k states, 2 min |
| `callers` | whose message, which numbers, and is memory freed? | 2 threads, one call each (`CallLimit`), 3 configurations or an unreadable file, lengths 0, 9, 600 | 5.6M states, 150 s |
| `check_palindrome` | is a palindrome found anywhere? **violated** | 1 configuration | |
| `update_races` | what can a check read while others write, and does a setting outlast the upgrades? | 2 loaders, 3 tools, 1 setter, deaths, a missing file or one with a policy and an unreadable switch | 2.1M states, 1 min |
| `update_alone` | is an undisturbed load or upgrade exact and safe, and do all end? | 1 loader, 2 tools, 74 contents, 9 systems, 10 keys, deaths | 20k states, 30 s |
| `update_missing` | does a missing file give the system's defaults? **violated** | 2 loaders | |

Why the bounds are enough. Two calls show every way in which one call can come
between two steps of another, and calls that follow each other are unbounded: `idle`
calls start again. The file of `service_races` starts with one key that every setter must keep, beside
the one that the calls write: more keys add contents, not interleavings. Three
tries are the usual argument of the PAM module and let an acceptance be followed
by a rejection and by a further prompt; three passwords in nested
policies give each change of the configuration a password it turns. On the
keyboard, `o p [ ]` are neighbours at the end of a row, `1` has no key, `P` is a
capital; with `n = 3` every counter passes its limit in passwords of 4 or 5
characters, and the longer ones let a run start late. The secrets of the hashes lie around the
ends of segments, of sixteen segments and of the 130 bytes of the buffer. With lengths 0, 9 and 600 every verdict
about a length occurs under one of the configurations. Two threads show every pair of messages
that meet. The switches and numbers in the contents of `update_alone` are each readable,
unreadable and missing. The theorems below lift most of these bounds. One guard
has an artificial bound, `CallLimit` of PwCallers, the number of checks and questions for
the policy a thread makes; asking for the message of a check is not counted. All other state
spaces are finite as they are.

`CHECK_DEADLOCK FALSE` is stated where the system really stops: the check
and the PAM module return, and the processes of `PwdConfUpdate` end.

Symmetry is used in `callers` only, between the two threads; it checks no liveness.

Fairness. `AnsweredCallsEnd`: weak fairness of `Handle(c)`, which is what the Go
scheduler gives a goroutine that can run; none of clients, polkit or the timer. It is checked
with two calls, so that one can come between any two steps of the other: no step of a call
waits for another call.
`Returns` (PAM): the module runs and the user answers prompts, well or badly;
none of the configuration. `Returns` (check): a called function goes on.
`EveryLoadEnds`: loaders and tools run; nobody has to start, and nobody has to
survive.

The only type invariant the runs check is that of the check with its searches; those of
`ConfService`, `PamChauthtok`, `PwCallers` and `PwdConfUpdate` are proved instead. Three invariants of
`check_rules` (`StrengthNeverDrops`, `StoredHashesAreExact`, `PolicyLinesAreExact`) are
about functions: each collects the passwords that go wrong, once, and says that the one
being checked is not among them. The passwords of up to 131 characters are there for
the hashes; the rules, when on, refuse the long ones for their length.

## What is proved

For every value of the constants, from the assumptions named in the modules
(typing of the constants; every key has one place on the keyboard; search arguments are positive,
which `deepin_pw_check_by_conf` tests before it calls).

**Service.** `TypeCorrect`, `FilesHoldOneSave`, `FreshSavesAreExact`,
`OnlyAuthorisedChanges`, `FreshSavesApply`, `SuccessIsStored`, for any number of
calls. The inductive invariant `IInv` joins the type invariant, `FileIsLastSave`,
`FreshSavesAreCurrent` and `CallInv`. CallInv says that a call past `load` was
granted if its method asks polkit, that whoever saves was asked something that saves, and that
its object holds the entries asked for. It is needed because a step at `write`
knows nothing of the steps before it. The two file invariants need each other:
a fresh save is computed from `version`, and `version` is what the file holds only as long as
`FileIsLastSave` does. The action properties follow from IInv in the state before the step.
`ReadsAreSaves` adds `RereadInv`: what ReadConfig has parsed once still parses when it reads again.

*Refinement.* `ApartIsAtomic`: for any number of calls, crashes and full disks, a behaviour in
which no call saves while another saves or is between the two readings of ReadConfig
(`SavesApart`) is one of `AtomicConf`. Getters, polkit dialogs and loads may overlap
with everything. A save takes effect when it ends: while a file is open between truncation and
end, the abstract file is what stood there before (`Stored`); the abstract calls are those in
flight (`InFlight`). A failed write and a death of the service map to `SaveInterrupted` and
`Crash`, which may leave a file empty. The proof needs `QuietInv`: no file is mixed, no call is stale, and
whoever saves found its source loadable, so that the save computes the atomic effect.
`SavesApart` is a condition the code does not establish: `service_two_setters` shows
what happens without it. With one call at a time it holds of itself, which gives `OneCallIsAtomic`,
the theorem beside the run `service_one_call`.

**PAM module.** `OnlyAcceptedIsStored` and `FailuresAreJustified` from `LoopInv`, which
relates the iterations left to the rejections shown, and what
`finally_result` says to the accepted passwords and the item; when a prompt fails, an
iteration is begun that no rejection was shown for. `SuccessIsTruthful` needs a second
invariant, `AgreedInv`: while the configuration is steady or there is one try,
an accepted item stays accepted, so the later iterations take it again and
do not clear it. `AcceptanceEndsQuestions` follows from it. `QuestionsHaveReasons` rests on `AskedInv`,
which bounds the questions by the iterations begun and, when the item is empty, by the
rejections shown. `TypesCorrect` includes that the counter stays within 0 and the number of tries.

**Rules.** `IndicesInBounds` (the palindrome search never hands memcpy a negative length),
`SearchIsSound`, `SearchFindsEarly`: the invariant lists the pairs of
positions already excluded (`Excluded`). `DecidesRuns`: the counter is the length of the run that ends
here, and no longer run came before (`CounterInv`). `FindsRuns` and `ReportsNeighbours`:
for each of the four counters, a stretch of at least that many related
neighbours ends here, and no run reaches further back than the counter
(`MonLoopInv`), with lemmas about the neighbours of a key on any keyboard.

**The check.** `AcceptanceIsEarned` and `RefusalIsDeserved` are about the whole
function. `CheckRunsTheSearches` shows that the check, seen by each search alone,
is a behaviour of that search's own specification, so the theorems on the
rules apply to it unchanged. `WordsAreRefused` joins `CheckInv` with lemmas that `Mangled`
undoes every disguise. `CheckTypesCorrect` collects the types of all four searches.
`CountsTypes` is about the loop over the groups that strtok yields: `TypIInv` says that the
characters and classes looked at so far are those of the pieces consumed.
`CheckInv` says what has passed at each rule, that a search
which has not been reached is as it was at first, and what the verdict rests on.
`CheckWorksOff` gives the check a measure, `WorkLeft`: the rules not yet looked at and the iterations each
search can still make, for the two indices of the palindrome search in their lexicographic order. Every
step lowers it; for the loop over the policy because each group that strtok yields is taken from
further on (`GroupsAdvance`).

**Beside the check.** `TypingOnStrengthens` holds for every four numbers of dde.conf, in any order.
`AcceptedAreStrong` joins `CheckInv` and `TypesAreCounted` with a bound on cardinalities:
when every group of the policy lies within one of the four classes and no two within the same,
the types a password uses stand for different classes it meets (`GroupsStandForClasses`).
`PolicySurvives` is about get_validate_policy alone: skipping stops at the first
character that is neither space nor quote (`SkipEnds`), whatever stands inside the line.
`HashesAreExact` is about verify_pwd alone, for passwords and secrets of any length.
bigcrypt's chain is compared block by block: equal blocks come from equal segments
(`CipherShowsSegments`), equal segments give equal blocks by a least counterexample
(`SegmentsGiveCipher`), and the segments say as much as the first 128 characters
(`SegmentsDecide`, `StartDecidesSegments`); a hash of one block is the case in which
keybuf is cut to eight (`ClassicVerdict`). Salts are assumed to have two characters, which is what
crypt(3) takes and what `bigcrypt` copies (SALT_SIZE).

**Callers.** For any number of threads and calls. `OptionsAreFreed` from `HeapInv`: blocks bear
the number of the call, and no block has a number still to come.
`OwnTextIsPrinted` from `TextInv`: while a thread is `apart` and writing, the halves
of the buffer it has written are its own, because a thread that enters takes
everybody it meets out of `apart`. `MessagesExplain` also needs `VerdictInv` (the verdict fits
the limits that were loaded) and `NumbersInv` (the numbers read so far are those
of the options while the file is steady).

**Loading and upgrading.** For any number of loaders. `OptionsAreSourced` from three invariants. `SourceInv`:
what any process holds, and the file itself, is made of sourced values only, except for the policy. `Policed`:
as long as the file has not `moved`, the file has its policy line whenever somebody is about to
read it again, so that the policy is sourced too. `SwitchInv`: the switch is off nowhere unless somebody
configured that, or a tool has rewritten an unreadable one. `SettingsOutlastUpgrades` from `ApartInv`:
while nobody died and no two processes were about to rewrite the file at once (`OneAtATime`), every content
from the setter's save on, and every dictionary a tool will write, has what it saved (`Kept`) and no policy out
of an uninitialised buffer (`Clean`); it is kept because the tool takes over every entry it finds. `PrivilegedLoadsSucceed` from `FileInv`: a
privileged loader that has started its tool has a file, or the tool is about to create one. `ToolKeepsOut`: on an unknown
system a tool is `idle` or `done`, which `Waiting` says. `UndisturbedLoads`,
`UpgradesComplete` and `UpgradesAreSafe` from `AloneInv`, which says for the one process that
is active how far it has come and what the file and its dictionary hold then,
with the lemmas that rewriting twice changes nothing (`UpdatedTwice`) and that the tool's defaults are as
strict as the library's (`DefaultsAsStrict`).

**Checked by TLC only.** Liveness (`AnsweredCallsEnd`, both `Returns`,
`EveryLoadEnds`): the prover has no support for ENABLED. Of the `Returns` of the check
`CheckWorksOff` proves that no loop runs for ever; that the check does not stop
before it has returned is left to TLC.

## Where code and documents disagree

Shown by a run:

- One setter loads the file, another then saves its change and reports success, and the save of the first puts the old value back (`service_two_setters`, service.go:177).
- Backup cannot create `dde.conf.bak` under the unit file and reports success (`service_backup`, service.go:328).
- PAM_SUCCESS after the last password was rejected and taken away, when the configuration changes between two iterations (`pam_retry`, pam.c:145).
- A palindrome that starts after the first 2n characters is missed (`check_palindrome`, deepin_pw_check.c:233).
- Two first checks at once: one uses the library's lenient defaults (`update_missing`, pwd_conf_update.c:275).

Met while modelling, in the models or seen in the code, without a run of their own:

- Going back and forth between two neighbours counts as a run (deepin_pw_check.c:419): a step in one direction does not restart the counter of the other.
- A step to the left from the last key of a row is not looked for (deepin_pw_check.c:432); a character without a key compares with the neighbours of an earlier one (:428). `MonotoneRun` and `Neighbours` state the code's behaviour exactly enough to be proved.
- ReadConfig validates one read and returns another (service.go:148). `ReadsSeeSaves` says what it can still return.
- VALIDATE_POLICY may be read from an uninitialised buffer when the line vanishes between two opens (deepin_pw_check.c:146). `OptionsHaveASource` says that this takes a file that changed between them (`moved`).
- From `a_p = 2` on the copy of the palindrome search starts so late that memcpy reads behind the terminator of the password (deepin_pw_check.c:221). What it reads there comes after the copied terminator and decides nothing (`CopyEnd`).
- docs/technical_solution.md:284-294 goes on with the next try when a prompt fails and gives PAM_AUTHTOK_ERR for a change the user aborted; the module returns at once, with tries left, whatever pam_get_authtok returned (pam.c:102-106). `FailureIsJustified` is about both ways out.
- For `VALIDATE_POLICY=""` without more, get_validate_policy copies -1 characters (deepin_pw_check.c:83): it skips both quotes and then takes a closing one off. `PolicyLinesAreExact` leaves the empty policy out.
- A STRONG_PASSWORD that is no boolean is "on" for the library (:137) and rewritten to "false" by the tool (pwd_conf_update.c:313). `UpgradesNeverWeaken` excludes unreadable switches, and only those; by `OptionsHaveASource` the check is off for no other reason than this or a configured "false".
- The tool drops the four keys of the strength levels, which it does not know, and undoes a setter that saved after it loaded (pwd_conf_update.c:517). `SettingsSurvive` says that, while nobody dies, a setting is lost in no other way than by two processes that are about to rewrite the file at once.
- The getter of the maximum length says 1 for a file that does not mention it (:647); the check says 512, as docs/interface_design.md:11 does. The message of a password that is too long then says "no more than 1". `MessageExplains` leaves this case out.
- `err_to_string` reads the configuration again (:755) into a static buffer (:36) that all threads share: messages that meet may be mixed, and numbers may be newer than the check.
- The disabled path returns without freeing its options (:557). `OnlyOffChecksLeak` says it is the only one.
- A dictionary that cannot be opened makes `word_check` return -1, which `is_word` reads as true (word_check.c:390): every password is then refused as a word.
- A `dict_path` argument is used only if the file names one as well (:179-186).

## Not modelled

- The rounds of MD5 (`md5.c`, and those of `crypt_md5`): arithmetic without state. crypt(3) and MD5 are taken to be free of collisions.
- cracklib (`Mangle`, `FindPW`, `PWOpen`), iniparser, libpam, polkit, the bus and the kernel are external: modelled from how the code uses them.
- Memory: sizes of buffers and what reading beyond one gives; strings are values. Lines of dde.conf are those that fit the 512 bytes given to fgets.
- The grub2 file is only read in this repository; PwCallers lets it change all the same.
- The options `-d` and `-h` of the tool, which change no file, and the rows OS_E and OS_HOME, which no version selects.
- Logging, translations, packaging, except for what the packages configure.

## Plan

Built in this order: the service and its file; the PAM module; the rules and the check; loading and upgrading;
then words, strength, hashes, policy lines and the callers beside the check. What is left:

1. A composition of `PamChauthtok` with `PwdConfUpdate` in place of its `ConfigChange`.
