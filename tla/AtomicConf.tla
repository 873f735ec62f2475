----------------------------- MODULE AtomicConf -----------------------------
(***************************************************************************)
(* What the configuration service promises its clients when calls do not   *)
(* overlap: a call that arrives takes effect on the files in one step,     *)
(* with its reply, or fails and changes nothing.  The exceptions are       *)
(* named: Reset and Backup may report a success they did not have, and a   *)
(* save that is interrupted leaves its file without content.               *)
(***************************************************************************)
EXTENDS ConfCalls

CONSTANTS Call, Requests, InitConf

VARIABLES file,   \* what dde.conf and dde.conf.bak hold
          busy,   \* the calls that have no reply yet
          req,    \* what each call asks
          reply   \* what each call got

vars == <<file, busy, req, reply>>

Init ==
    /\ file = [f \in Path |-> IF f = conf THEN InitConf ELSE NoFile]
    /\ busy = {}
    /\ req = [c \in Call |-> [op |-> "ReadConfig", arg |-> Empty]]
    /\ reply = [c \in Call |-> NoReply]

Invoke(c, r) ==
    /\ c \notin busy
    /\ busy' = busy \cup {c}
    /\ req' = [req EXCEPT ![c] = r]
    /\ reply' = [reply EXCEPT ![c] = NoReply]
    /\ UNCHANGED file

Answer(c, r) ==
    /\ c \in busy
    /\ busy' = busy \ {c}
    /\ reply' = [reply EXCEPT ![c] = r]
    /\ UNCHANGED req

(* Each kind of call when it succeeds.                                     *)
Save(c) ==
    LET r == req[c] IN
    /\ r.op = "WriteConfig" \/ Loads(file[Source(r.op)])
    /\ r.op = "WriteConfig" => Loads(r.arg)
    /\ r.op \in Setter \cup Copier \cup {"WriteConfig"}
    /\ file' = [file EXCEPT ![Target(r.op)] = Effect(file, r)]
    /\ Answer(c, Ok(Empty))

Read(c) ==
    LET op == req[c].op IN
    /\ Loads(file[conf])
    /\ \/ /\ op = "ReadConfig"
          /\ Answer(c, Ok(file[conf]))
       \/ /\ op \in Getter
          /\ \A k \in GetterKeys[op] : Reads(file[conf], k)
          /\ Answer(c, Ok([k \in GetterKeys[op] |-> file[conf][k]]))
    /\ UNCHANGED file

Refuse(c) ==
    /\ Answer(c, Error)
    /\ UNCHANGED file

(* A save that could not finish: the file is left alone or left empty.     *)
SaveInterrupted(c) ==
    LET op == req[c].op IN
    /\ op \in Setter \cup Copier \cup {"WriteConfig"}
    /\ \/ UNCHANGED file
       \/ file' = [file EXCEPT ![Target(op)] = Empty]
    /\ Answer(c, SaveFailed(op))

(* The service ends: no call in flight gets a reply, and each may have     *)
(* been interrupted.                                                       *)
Crash ==
    /\ \E F \in SUBSET {Target(req[c].op) : c \in busy} :
          file' = [f \in Path |-> IF f \in F THEN Empty ELSE file[f]]
    /\ busy' = {}
    /\ reply' = [c \in Call |-> IF c \in busy THEN Lost ELSE reply[c]]
    /\ UNCHANGED req

Next == \/ Crash
        \/ \E c \in Call : \/ \E r \in Requests : Invoke(c, r)
                           \/ Save(c) \/ Read(c) \/ Refuse(c)
                           \/ SaveInterrupted(c)

Spec == Init /\ [][Next]_vars
=============================================================================
