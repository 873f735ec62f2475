---------------------------- MODULE ConfService ----------------------------
(***************************************************************************)
(* The D-Bus service org.deepin.dde.PasswdConf1 (service/service.go and    *)
(* service/main.go).                                                       *)
(*                                                                         *)
(* Every method call runs in a goroutine of its own and the manager holds  *)
(* no lock, so the calls interleave.  A handler is a sequence of steps     *)
(* separated by what another goroutine can observe or disturb: the polkit  *)
(* round trip, reading the file, truncating the file, writing it.  Between *)
(* reading and truncating the handler changes only its own KeyFile object. *)
(*                                                                         *)
(* The process may end at any moment: main.go lets the bus library stop it *)
(* after 30 seconds and no handler delays that.  The bus starts it again.  *)
(***************************************************************************)
EXTENDS ConfCalls

CONSTANTS Call,         \* method calls that can be in flight together
          Requests,     \* what clients ask
          InitConf,     \* what dde.conf holds at first
          DirWritable,  \* may the process create files in /etc/deepin?
          Faults        \* a subset of {"quit", "full"}: what may go wrong

ASSUME RequestsAssumption == Requests \subseteq Request
ASSUME InitConfAssumption == InitConf \in Content
ASSUME DirWritableAssumption == DirWritable \in BOOLEAN
ASSUME FaultsAssumption == Faults \subseteq {"quit", "full"}

VARIABLES file,     \* the content of dde.conf and of dde.conf.bak
          up,       \* is the service process running?
          pc,       \* the step each call is at; "idle" when not in flight
          req,      \* what each call was asked
          kf,       \* the KeyFile object of each call
          reply     \* what each client got for its latest call

(* History variables: no step depends on them.                             *)
VARIABLES granted,  \* the calls in flight that polkit authorised
          version,  \* what the last save of each file meant it to hold
          mixed,    \* files whose latest saves overlapped
          stale     \* saving calls whose source was, or may have been,
                    \* changed by another call since before they read it

service == <<file, up, pc, req, kf, reply>>
history == <<granted, version, mixed, stale>>
vars == <<service, history>>

(* c has file f open, truncated and not yet written.                       *)
Saving(c, f) == pc[c] = "write" /\ Target(req[c].op) = f

(* Some call has it open so.                                               *)
Open(f) == \E c \in Call : Saving(c, f)

(* The calls other than c that read f and have not written what they made  *)
(* of it.                                                                  *)
Derived(c, f) == {d \in Call \ {c} : /\ pc[d] \in {"truncate", "write"}
                                     /\ req[d].op # "WriteConfig"
                                     /\ Source(req[d].op) = f}

(***************************************************************************)
(* The steps of a call                                                     *)
(***************************************************************************)
Init ==
    /\ file = [f \in Path |-> IF f = conf THEN InitConf ELSE NoFile]
    /\ up = FALSE
    /\ pc = [c \in Call |-> "idle"]
    /\ req = [c \in Call |-> [op |-> "ReadConfig", arg |-> Empty]]
    /\ kf = [c \in Call |-> Empty]
    /\ reply = [c \in Call |-> NoReply]
    /\ granted = {}
    /\ version = file
    /\ mixed = {}
    /\ stale = {}

Goto(c, label) == pc' = [pc EXCEPT ![c] = label]

(* A handler returns; its call is over.                                    *)
Return(c, r) ==
    /\ Goto(c, "idle")
    /\ kf' = [kf EXCEPT ![c] = Empty]
    /\ reply' = [reply EXCEPT ![c] = r]
    /\ granted' = granted \ {c}

(* The bus activates the service: serviceInit exports the object, Wait.    *)
Start ==
    /\ ~up
    /\ up' = TRUE
    /\ UNCHANGED <<file, pc, req, kf, reply, history>>

(* Methods that take arguments skip polkit.                                *)
Invoke_SettersSkipAuth(c, r) ==
    /\ up
    /\ pc[c] = "idle"
    /\ req' = [req EXCEPT ![c] = r]
    /\ reply' = [reply EXCEPT ![c] = NoReply]
    /\ Goto(c, IF r.op \in Getter \cup Setter THEN "load" ELSE "auth")
    /\ UNCHANGED <<file, up, kf, history>>

(* A client calls a method.  The getters do not ask polkit.                *)
Invoke(c, r) ==
    /\ up
    /\ pc[c] = "idle"
    /\ req' = [req EXCEPT ![c] = r]
    /\ reply' = [reply EXCEPT ![c] = NoReply]
    /\ Goto(c, IF r.op \in Getter THEN "load" ELSE "auth")
    /\ UNCHANGED <<file, up, kf, history>>

(* checkAuth returned nil.  WriteConfig parses its argument and goes on to *)
(* write it verbatim; the others load a file first.                        *)
Authorised(c) ==
    LET r == req[c] IN
    /\ pc[c] = "auth"
    /\ \/ /\ r.op # "WriteConfig"
          /\ Goto(c, "load")
          /\ granted' = granted \cup {c}
          /\ UNCHANGED <<kf, reply>>
       \/ /\ r.op = "WriteConfig"
          /\ Loads(r.arg)
          /\ Goto(c, "truncate")
          /\ kf' = [kf EXCEPT ![c] = r.arg]
          /\ granted' = granted \cup {c}
          /\ UNCHANGED reply
       \/ /\ r.op = "WriteConfig"
          /\ ~Loads(r.arg)
          /\ Return(c, Error)
    /\ UNCHANGED <<file, up, req, version, mixed, stale>>

(* checkAuth returned an error: polkit said no, or could not be asked.     *)
Denied(c) ==
    /\ pc[c] = "auth"
    /\ Return(c, Error)
    /\ UNCHANGED <<file, up, req, version, mixed, stale>>

(* LoadFromFile of the file the method starts from fails, or a getter does *)
(* not find its key in it.                                                 *)
LoadFails(c) ==
    /\ pc[c] = "load"
    /\ LET got == file[Source(req[c].op)] IN
       \/ ~Loads(got)
       \/ /\ Loads(got)
          /\ req[c].op \in Getter
          /\ \E k \in GetterKeys[req[c].op] : ~Reads(got, k)
    /\ Return(c, Error)
    /\ UNCHANGED <<file, up, req, version, mixed, stale>>

(* The loaded entries go over the new ones; a setter saves a new KeyFile    *)
(* instead of the loaded one; Reset saves what dde.conf holds.             *)
Edited_OldWins(r) == IF r.op \in Setter THEN Override(r.arg, file[conf])
                                        ELSE file[Source(r.op)]

Edited_DropsOthers(r) == IF r.op \in Setter THEN r.arg ELSE file[Source(r.op)]

Edited_FromConf(r) == IF r.op \in Setter THEN Override(file[conf], r.arg)
                                         ELSE file[conf]

(* The KeyFile object to save: what LoadFromFile returned, changed by the  *)
(* setter's SetInt, SetString or SetBool.                                  *)
Edited(r) == IF r.op \in Setter THEN Override(file[Source(r.op)], r.arg)
                                ELSE file[Source(r.op)]

(* LoadFromFile of the file the method starts from.                        *)
LoadForSave(c) ==
    LET op == req[c].op
        f == Source(op)
    IN  /\ pc[c] = "load"
        /\ op \in Setter \cup Copier
        /\ Loads(file[f])
        /\ kf' = [kf EXCEPT ![c] = Edited(req[c])]
        /\ Goto(c, "truncate")
        /\ stale' = IF f \in mixed \/ \E d \in Call : Saving(d, f)
                    THEN stale \cup {c} ELSE stale
        /\ UNCHANGED <<file, up, req, reply, granted, version, mixed>>

LoadForRead(c) ==
    /\ pc[c] = "load"
    /\ req[c].op = "ReadConfig"
    /\ Loads(file[conf])
    /\ Goto(c, "reread")
    /\ UNCHANGED <<file, up, req, kf, reply, history>>

Get(c) ==
    LET op == req[c].op IN
    /\ pc[c] = "load"
    /\ op \in Getter
    /\ Loads(file[conf])
    /\ \A k \in GetterKeys[op] : Reads(file[conf], k)
    /\ Return(c, Ok([k \in GetterKeys[op] |-> file[conf][k]]))
    /\ UNCHANGED <<file, up, req, version, mixed, stale>>

(* It reads the backup.                                                    *)
Reread_Backup(c) ==
    /\ pc[c] = "reread"
    /\ Return(c, IF file[bak] = NoFile THEN Error ELSE Ok(file[bak]))
    /\ UNCHANGED <<file, up, req, version, mixed, stale>>

(* ReadConfig reads the file a second time and returns those bytes.        *)
Reread(c) ==
    /\ pc[c] = "reread"
    /\ Return(c, IF file[conf] = NoFile THEN Error ELSE Ok(file[conf]))
    /\ UNCHANGED <<file, up, req, version, mixed, stale>>

(* os.Create and ioutil.WriteFile open with O_CREATE|O_TRUNC.  The unit    *)
(* file makes the file system read-only except for an existing dde.conf.   *)
CanOpen(f) == DirWritable \/ (f = conf /\ file[conf] # NoFile)

(* The file is opened without O_TRUNC.                                     *)
Truncate_KeepsContent(c) ==
    LET f == Target(req[c].op) IN
    /\ pc[c] = "truncate"
    /\ CanOpen(f)
    /\ Goto(c, "write")
    /\ mixed' = IF \E d \in Call : Saving(d, f)
                THEN mixed \cup {f} ELSE mixed \ {f}
    /\ UNCHANGED <<file, up, req, kf, reply, granted, version, stale>>

(* A lock on the file that every loading call shares has to be made        *)
(* exclusive first.                                                        *)
Truncate_UpgradesLock(c) ==
    LET f == Target(req[c].op) IN
    /\ pc[c] = "truncate"
    /\ CanOpen(f)
    /\ \A d \in Call \ {c} : pc[d] \notin {"reread", "truncate", "write"}
    /\ file' = [file EXCEPT ![f] = Empty]
    /\ Goto(c, "write")
    /\ mixed' = mixed \ {f}
    /\ UNCHANGED <<up, req, kf, reply, granted, version, stale>>

Truncate(c) ==
    LET f == Target(req[c].op) IN
    /\ pc[c] = "truncate"
    /\ CanOpen(f)
    /\ file' = [file EXCEPT ![f] = Empty]
    /\ Goto(c, "write")
    /\ mixed' = IF \E d \in Call : Saving(d, f)
                THEN mixed \cup {f} ELSE mixed \ {f}
    /\ UNCHANGED <<up, req, kf, reply, granted, version, stale>>

(* The file cannot be opened, or a full file system has no room for a new  *)
(* one.                                                                    *)
TruncateFails(c) ==
    LET f == Target(req[c].op) IN
    /\ pc[c] = "truncate"
    /\ ~CanOpen(f) \/ ("full" \in Faults /\ file[f] = NoFile)
    /\ Return(c, SaveFailed(req[c].op))
    /\ stale' = stale \ {c}
    /\ UNCHANGED <<file, up, req, version, mixed>>

Write(c) ==
    LET f == Target(req[c].op) IN
    /\ pc[c] = "write"
    /\ \E new \in Overlay(file[f], kf[c]) : file' = [file EXCEPT ![f] = new]
    /\ Return(c, Ok(Empty))
    /\ version' = [version EXCEPT ![f] = kf[c]]
    /\ stale' = (stale \cup Derived(c, f)) \ {c}
    /\ UNCHANGED <<up, req, mixed>>

(* The file system is full: the file was truncated and stays as it is.     *)
WriteFails(c) ==
    LET f == Target(req[c].op) IN
    /\ "full" \in Faults
    /\ pc[c] = "write"
    /\ Return(c, SaveFailed(req[c].op))
    /\ version' = [version EXCEPT ![f] = Empty]
    /\ stale' = (stale \cup Derived(c, f)) \ {c}
    /\ UNCHANGED <<file, up, req, mixed>>

(* The process ends: the bus library's timer (its handler returns true     *)
(* without looking at the calls in flight) or a kill.  The bus tells every *)
(* waiting client that there is no reply.                                  *)
Quit ==
    /\ "quit" \in Faults
    /\ up
    /\ up' = FALSE
    /\ pc' = [c \in Call |-> "idle"]
    /\ kf' = [c \in Call |-> Empty]
    /\ reply' = [c \in Call |-> IF pc[c] = "idle" THEN reply[c] ELSE Lost]
    /\ granted' = {}
    /\ version' = [f \in Path |-> IF \E c \in Call : Saving(c, f)
                                  THEN Empty ELSE version[f]]
    /\ stale' = {}
    /\ UNCHANGED <<file, req, mixed>>

(* What the handler of c does by itself, without client or polkit.         *)
Handle(c) == \/ LoadFails(c) \/ LoadForSave(c) \/ LoadForRead(c) \/ Get(c)
             \/ Reread(c)
             \/ Truncate(c) \/ TruncateFails(c) \/ Write(c) \/ WriteFails(c)

Next == \/ Start
        \/ Quit
        \/ \E c \in Call : \/ \E r \in Requests : Invoke(c, r)
                           \/ Authorised(c)
                           \/ Denied(c)
                           \/ Handle(c)

Spec == Init /\ [][Next]_vars

(* The Go scheduler runs every goroutine that can run.  Nothing is assumed *)
(* of the clients, of polkit (a dialog may stay open) or of the timer.     *)
FairSpec == Spec /\ \A c \in Call : WF_vars(Handle(c))

(***************************************************************************)
(* Properties                                                              *)
(***************************************************************************)
Label == {"idle", "auth", "load", "reread", "truncate", "write"}

Reply == [status : {"none", "ok", "error", "lost"}, data : Content]

(* The variables keep their types; a call that got to saving asked for     *)
(* something that saves, and the history variables name only such calls.   *)
TypeOK ==
    /\ file \in [Path -> Content]
    /\ up \in BOOLEAN
    /\ pc \in [Call -> Label]
    /\ req \in [Call -> Request]
    /\ kf \in [Call -> Conf]
    /\ reply \in [Call -> Reply]
    /\ granted \subseteq Call
    /\ version \in [Path -> Content]
    /\ mixed \subseteq Path
    /\ stale \subseteq Call

(* Every byte of a file comes from one save: a file whose saves did not    *)
(* overlap is either empty and about to be written by its only writer, or  *)
(* exactly what the last save meant, empty if that save was interrupted.   *)
(* No crash, full disk or concurrent reader leaves anything else there.    *)
FileIsLastSave ==
    \A f \in Path \ mixed :
        /\ (\E c \in Call : Saving(c, f)) => file[f] = Empty
        /\ (\A c \in Call : ~Saving(c, f)) => file[f] = version[f]
        /\ \A c, d \in Call : Saving(c, f) /\ Saving(d, f) => c = d

(* The object a handler is about to save is the current configuration with *)
(* its own request applied, however long the call has taken, unless some   *)
(* other call saved the source meanwhile.                                  *)
FreshSavesAreCurrent ==
    \A c \in Call \ stale :
        pc[c] \in {"truncate", "write"} => kf[c] = Effect(version, req[c])

(* A save that ends changes its file from what the previous save meant to  *)
(* exactly what was asked, unless the call was stale or saves overlapped.  *)
FreshSavesTakeEffect ==
    [][\A c \in Call, f \in Path :
          /\ Saving(c, f) /\ pc'[c] = "idle" /\ file'[f] # file[f]
          /\ c \notin stale /\ f \notin mixed
          => file'[f] = Effect(version, req[c])]_vars

(* dde.conf and its backup change only by a step of a call that polkit     *)
(* authorised after it arrived and before it touched a file                *)
(* (modify-config of technical_solution.md, section 3).                    *)
ChangesAreAuthorised ==
    [][\A f \in Path : file'[f] # file[f] =>
          \E c \in granted : /\ pc[c] \in {"truncate", "write"}
                             /\ pc'[c] # pc[c]
                             /\ Target(req[c].op) = f]_vars

(* When a setter or WriteConfig reports success its entries are in the     *)
(* file at that moment, unless another save had the file open: a failed    *)
(* authorisation, load, open or write is never reported as success.        *)
AcknowledgedIsStored ==
    [][\A c \in Call :
          /\ pc[c] # "idle" /\ pc'[c] = "idle" /\ reply'[c].status = "ok"
          /\ req[c].op \in Setter \cup {"WriteConfig"}
          /\ conf \notin mixed
          => /\ Loads(file'[conf])
             /\ \A k \in DOMAIN req[c].arg :
                    /\ k \in DOMAIN file'[conf]
                    /\ file'[conf][k] = req[c].arg[k]]_vars

(* Unless saves overlapped, ReadConfig returns a configuration, although   *)
(* it parsed another reading of the file than it returns: what the last    *)
(* save meant, or the empty file of the one save that is open.  A getter   *)
(* answers what the last save meant and never while a save is open.        *)
ReadsSeeSaves ==
    [][\A c \in Call :
          /\ pc[c] # "idle" /\ pc'[c] = "idle" /\ reply'[c].status = "ok"
          /\ conf \notin mixed
          => /\ req[c].op = "ReadConfig" =>
                  /\ Loads(reply'[c].data)
                  /\ Open(conf) => reply'[c].data = Empty
                  /\ ~Open(conf) => reply'[c].data = version[conf]
             /\ req[c].op \in Getter =>
                  /\ ~Open(conf)
                  /\ \A k \in GetterKeys[req[c].op] :
                        /\ Reads(version[conf], k)
                        /\ reply'[c].data[k] = version[conf][k]]_vars

(* Once polkit has answered, a call ends with a reply, whatever the others *)
(* do and whatever fails.                                                  *)
AnsweredCallsEnd ==
    \A c \in Call : pc[c] \notin {"idle", "auth"} ~> pc[c] = "idle"

(* What the interface document promises and the code does not do.          *)

(* interface_design.md:106: Backup backs up the current configuration.     *)
(* A Backup that reported success left a backup.                           *)
BackupLeavesBackup ==
    \A c \in Call : req[c].op = "Backup" /\ reply[c].status = "ok"
                    => Loads(file[bak])

(* interface_design.md:47, 60, 72, 78: a setter sets its own field.  A     *)
(* setter that reports success does not put back an older value of a field *)
(* that another setter, which has reported success already, gave its own.  *)
Reports(c) == /\ req[c].op \in Setter
              /\ pc[c] # "idle"
              /\ pc'[c] = "idle"
              /\ reply'[c].status = "ok"

Reported(c) == req[c].op \in Setter /\ pc[c] = "idle" /\ reply[c].status = "ok"

SettersKeepOthers ==
    [][\A c, d \in Call :
          Reports(c) /\ Reported(d) /\ conf \notin mixed =>
             \A k \in DOMAIN req[d].arg \ DOMAIN req[c].arg :
                /\ k \in DOMAIN version[conf]
                /\ version[conf][k] = req[d].arg[k]
                /\ k \in DOMAIN file'[conf]
                => file'[conf][k] = req[d].arg[k]]_vars

(***************************************************************************)
(* As long as no call saves while another saves or is between the two      *)
(* readings of ReadConfig, the service is an atomic store: each call takes *)
(* effect when its save ends, so while a save is open the store still      *)
(* holds what was there before it.                                         *)
(***************************************************************************)
SavesApart ==
    \A c, d \in Call : pc[c] \in {"truncate", "write"} /\ d # c =>
                          pc[d] \notin {"truncate", "write", "reread"}

Stored == [f \in Path |-> IF Open(f) THEN version[f] ELSE file[f]]

InFlight == {c \in Call : pc[c] # "idle"}

Atomic == INSTANCE AtomicConf WITH file <- Stored, busy <- InFlight

ImplementsAtomicConf == Atomic!Spec
=============================================================================
