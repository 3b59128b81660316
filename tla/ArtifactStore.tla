---------------------------- MODULE ArtifactStore ----------------------------
(***************************************************************************)
(* The content-addressed filesystem store: put writes a temporary file and *)
(* renames it to the path derived from its digest, read verifies the       *)
(* digest and reads the bytes again.  Threads of several processes share   *)
(* one directory and no lock.  Processes crash, writes and renames fail,   *)
(* stored bytes may be damaged, and power may be lost.                     *)
(*                                                                         *)
(* A file holds the content its name promises or other bytes ("Broken":    *)
(* a partial write, or damage); a digest distinguishes the two.            *)
(***************************************************************************)
EXTENDS Integers, FiniteSets

CONSTANTS
    Threads,         \* threads that call put and read
    Processes,       \* process ids
    ProcessOf,       \* thread -> its process
    Contents,        \* byte strings to be stored, one per digest
    Purposes,        \* what a put is for: the caller's other arguments
    Broken,          \* bytes that do not have the digest of the path
    Absent,          \* no file
    DirectorySynced, \* does a rename survive a power loss once it returned?
    MaxTemps,        \* bound on the temporary files of a process id
    MaxDamage        \* bound on the contents damaged from outside

ASSUME FilesAssumption ==
    /\ ProcessOf \in [Threads -> Processes]
    /\ Broken \notin Contents /\ Absent \notin Contents /\ Broken # Absent
    /\ DirectorySynced \in BOOLEAN
    /\ MaxTemps \in Nat /\ MaxDamage \in Nat

VARIABLES
    blob,     \* what the path of each content holds
    temp,     \* what each temporary path holds
    counter,  \* TEMP_COUNTER of each process
    thread,   \* where each thread is in put or read
    volatile, \* renames that a power loss may still undo
    damaged   \* contents that were damaged from outside

files == <<blob, temp, counter, thread, volatile, damaged>>

Files == Contents \cup {Broken, Absent}

\* .{hash}.{pid}.{sequence}.tmp
TempNames ==
    [process : Processes, sequence : 0..(MaxTemps - 1), content : Contents]

Resting == [step |-> "idle"]

At(t, step) == thread[t].step = step

Goto(t, step) == thread' = [thread EXCEPT ![t].step = step]

Rest(t) == thread' = [thread EXCEPT ![t] = Resting]

Name(t) == [process |-> ProcessOf[t], sequence |-> thread[t].sequence,
            content |-> thread[t].content]

(***************************************************************************)
(* put                                                                     *)
(***************************************************************************)

\* destination.exists()
BeginPut(t, c, purpose) ==
    /\ At(t, "idle")
    /\ thread' = [thread EXCEPT ![t] =
                     [step |-> IF blob[c] = Absent THEN "absent" ELSE "found",
                      content |-> c, purpose |-> purpose, sequence |-> 0]]
    /\ UNCHANGED <<blob, temp, counter, volatile, damaged>>

\* Mutant: what is at the destination is not hashed again.
AcceptFound_Unverified(t) ==
    /\ At(t, "found") /\ Goto(t, "stored")
    /\ UNCHANGED <<blob, temp, counter, volatile, damaged>>

\* verify_existing: the digest of what is there decides.
AcceptFound(t) ==
    /\ thread[t].step \in {"found", "raced"}
    /\ blob[thread[t].content] = thread[t].content
    /\ Goto(t, "stored")
    /\ UNCHANGED <<blob, temp, counter, volatile, damaged>>

\* Mutant: a damaged file is removed for the next put to write again.
RejectFound_Remove(t) ==
    /\ At(t, "found") /\ blob[thread[t].content] # thread[t].content
    /\ blob' = [blob EXCEPT ![thread[t].content] = Absent]
    /\ Rest(t)
    /\ UNCHANGED <<temp, counter, volatile, damaged>>

\* Another digest, or the file cannot be read.
RejectFound(t) ==
    /\ At(t, "found") /\ Rest(t)
    /\ UNCHANGED <<blob, temp, counter, volatile, damaged>>

\* The same after a rename that failed: the temporary file is removed again.
RejectRaced(t) ==
    /\ At(t, "raced") /\ Goto(t, "cleanup")
    /\ UNCHANGED <<blob, temp, counter, volatile, damaged>>

\* Mutant: the sequence number is not part of the name.
Sequence_None(t) == 0

Sequence(t) == counter[ProcessOf[t]]

\* create_new makes put fail if there is a file of that name, left by a dead
\* process with the same id, or for any other reason; the failure path removes
\* the file.
CreateTemp(t) ==
    LET name == [process |-> ProcessOf[t], sequence |-> Sequence(t),
                 content |-> thread[t].content]
    IN  /\ At(t, "absent") /\ counter[ProcessOf[t]] < MaxTemps
        /\ counter' = [counter EXCEPT ![ProcessOf[t]] = @ + 1]
        /\ \E opened \in BOOLEAN :
              /\ opened => temp[name] = Absent
              /\ thread' = [thread EXCEPT
                     ![t].sequence = Sequence(t),
                     ![t].step = IF opened THEN "created" ELSE "cleanup"]
              /\ temp' = IF opened THEN [temp EXCEPT ![name] = Broken] ELSE temp
        /\ UNCHANGED <<blob, volatile, damaged>>

\* The directory cannot be created.
FailCreate(t) ==
    /\ At(t, "absent") /\ Rest(t)
    /\ UNCHANGED <<blob, temp, counter, volatile, damaged>>

\* write_all and sync_all
WriteTemp(t) ==
    /\ At(t, "created")
    /\ temp' = [temp EXCEPT ![Name(t)] = thread[t].content]
    /\ Goto(t, "synced")
    /\ UNCHANGED <<blob, counter, volatile, damaged>>

\* Mutant: an error of write_all or sync_all is not looked at.
FailWrite_Ignored(t) ==
    /\ At(t, "created") /\ Goto(t, "synced")
    /\ UNCHANGED <<blob, temp, counter, volatile, damaged>>

FailWrite(t) ==
    /\ At(t, "created") /\ Goto(t, "cleanup")
    /\ UNCHANGED <<blob, temp, counter, volatile, damaged>>

\* rename replaces what is at the destination, in one step.
Publish(t) ==
    /\ At(t, "synced")
    /\ temp[Name(t)] # Absent
    /\ blob' = [blob EXCEPT ![thread[t].content] = temp[Name(t)]]
    /\ temp' = [temp EXCEPT ![Name(t)] = Absent]
    /\ volatile' = IF DirectorySynced THEN volatile
                                      ELSE volatile \cup {thread[t].content}
    /\ Goto(t, "stored")
    /\ UNCHANGED <<counter, damaged>>

\* remove_file(..).ok(): the removal may fail.
MayRemove(t) ==
    \/ temp' = [temp EXCEPT ![Name(t)] = Absent]
    \/ UNCHANGED temp

\* The rename fails: a destination that exists by now is verified instead.
FailPublish(t) ==
    /\ At(t, "synced")
    /\ IF blob[thread[t].content] # Absent
       THEN MayRemove(t) /\ Goto(t, "raced")
       ELSE Goto(t, "cleanup") /\ UNCHANGED temp
    /\ UNCHANGED <<blob, counter, volatile, damaged>>

Cleanup(t) ==
    /\ At(t, "cleanup") /\ MayRemove(t) /\ Rest(t)
    /\ UNCHANGED <<blob, counter, volatile, damaged>>

\* put returns to a caller that does nothing more.
EndPut(t) ==
    /\ At(t, "stored") /\ Rest(t)
    /\ UNCHANGED <<blob, temp, counter, volatile, damaged>>

PutStep(t) ==
    \/ AcceptFound(t) \/ RejectFound(t) \/ RejectRaced(t)
    \/ CreateTemp(t) \/ FailCreate(t)
    \/ WriteTemp(t) \/ FailWrite(t)
    \/ Publish(t) \/ FailPublish(t) \/ Cleanup(t)

(***************************************************************************)
(* read: a missing or broken file is an error and changes nothing.         *)
(***************************************************************************)
BeginRead(t, c) ==
    /\ At(t, "idle") /\ blob[c] = c
    /\ thread' = [thread EXCEPT ![t] = [step |-> "verified", content |-> c]]
    /\ UNCHANGED <<blob, temp, counter, volatile, damaged>>

\* The file is opened and read a second time.
FinishRead(t) ==
    /\ At(t, "verified") /\ blob[thread[t].content] # Absent
    /\ thread' = [thread EXCEPT ![t] =
                     [step |-> "answered", content |-> thread[t].content,
                      bytes |-> blob[thread[t].content]]]
    /\ UNCHANGED <<blob, temp, counter, volatile, damaged>>

EndRead(t) ==
    /\ At(t, "answered") /\ Rest(t)
    /\ UNCHANGED <<blob, temp, counter, volatile, damaged>>

ReadStep(t) == FinishRead(t) \/ EndRead(t)

(***************************************************************************)
(* The environment                                                         *)
(***************************************************************************)

\* A process dies; its successor has a new process id, or the same one and
\* then a counter that starts again.
Crash(p) ==
    /\ thread' = [t \in Threads |->
                     IF ProcessOf[t] = p THEN Resting ELSE thread[t]]
    /\ counter' \in {counter, [counter EXCEPT ![p] = 0]}
    /\ UNCHANGED <<blob, temp, volatile, damaged>>

\* Every process dies and renames that were not synced may be undone.
LosePower ==
    /\ \E lost \in SUBSET volatile :
          blob' = [c \in Contents |-> IF c \in lost THEN Absent ELSE blob[c]]
    /\ volatile' = {}
    /\ thread' = [t \in Threads |-> Resting]
    /\ counter' = [p \in Processes |-> 0]
    /\ UNCHANGED <<temp, damaged>>

\* The system writes the directory back.
Settle ==
    /\ volatile # {} /\ volatile' = {}
    /\ UNCHANGED <<blob, temp, counter, thread, damaged>>

Damage(c) ==
    /\ blob[c] = c /\ Cardinality(damaged) < MaxDamage
    /\ blob' = [blob EXCEPT ![c] = Broken]
    /\ damaged' = damaged \cup {c}
    /\ UNCHANGED <<temp, counter, thread, volatile>>

Environment ==
    \/ \E p \in Processes : Crash(p)
    \/ LosePower
    \/ Settle
    \/ \E c \in Contents : Damage(c)

FilesInit ==
    /\ blob = [c \in Contents |-> Absent]
    /\ temp = [n \in TempNames |-> Absent]
    /\ counter = [p \in Processes |-> 0]
    /\ thread = [t \in Threads |-> Resting]
    /\ volatile = {} /\ damaged = {}

FilesNext ==
    \/ \E t \in Threads :
          \/ \E c \in Contents, purpose \in Purposes : BeginPut(t, c, purpose)
          \/ \E c \in Contents : BeginRead(t, c)
          \/ PutStep(t) \/ EndPut(t) \/ ReadStep(t)
    \/ Environment

FilesSpec == FilesInit /\ [][FilesNext]_files

(***************************************************************************)
(* Properties                                                              *)
(***************************************************************************)
ThreadStates ==
    {Resting}
    \cup [step : {"absent", "found", "created", "synced", "raced", "cleanup",
                   "stored"},
          content : Contents, purpose : Purposes, sequence : 0..MaxTemps]
    \cup [step : {"verified"}, content : Contents]
    \cup [step : {"answered"}, content : Contents, bytes : Files \ {Absent}]

\* Threads that found the file at its final path, stored it or verified it.
Relying(t) == thread[t].step \in {"found", "raced", "stored", "verified"}

\* A file at its final path exists for every thread that counts on it.
FilesTypeOK ==
    /\ blob \in [Contents -> Files]
    /\ temp \in [TempNames -> Files]
    /\ counter \in [Processes -> 0..MaxTemps]
    /\ thread \in [Threads -> ThreadStates]
    /\ volatile \subseteq Contents /\ damaged \subseteq Contents
    /\ \A t \in Threads : Relying(t) => blob[thread[t].content] # Absent

Owner(t) == thread[t].step \in {"created", "synced"}

\* Threads that may still remove the file of their name.
Removing(t) == thread[t].step \in {"raced", "cleanup"}

\* Threads that write temporary files write different ones, each of which is
\* there until its owner renames or removes it, although process ids and
\* sequence numbers are used again after a crash (put's temporary name).
TempsAreOwned ==
    \A t \in Threads : Owner(t) =>
        /\ thread[t].sequence < counter[ProcessOf[t]]
        /\ temp[Name(t)] # Absent
        /\ At(t, "synced") => temp[Name(t)] = thread[t].content
        /\ \A u \in Threads \ {t} :
              (Owner(u) \/ Removing(u)) => Name(u) # Name(t)

Answers(c) ==
    {thread[t].bytes : t \in {u \in Threads : At(u, "answered")
                                           /\ thread[u].content = c}}

\* What can be seen at a final path, and what a read answers, is the whole
\* content, however many threads write it and wherever they crash or fail
\* (write, sync, then rename).  A content that was damaged is excepted: read
\* answers with bytes it reads after the ones it verified.
PublishedIsWhole ==
    \A c \in Contents \ damaged :
        blob[c] \in {c, Absent} /\ Answers(c) \subseteq {c}

\* A put succeeds only when the whole content is at its path at that moment:
\* found and verified, or renamed from a file that was completely written.
PutSucceedsOnlyWhole ==
    [][\A t \in Threads : (~At(t, "stored") /\ At(t, "stored")')
          => blob'[thread[t].content] = thread[t].content]_files

\* The program never removes a file at a final path, and never replaces one
\* by anything but the whole content; only damage, a step of no thread, and a
\* power loss change it otherwise (existing content is reused, a broken file is
\* left alone).
PublishedIsForever ==
    [][\A c \in Contents :
          (blob[c] # Absent /\ blob'[c] # blob[c])
              => \/ blob'[c] = Broken /\ c \in damaged' /\ UNCHANGED thread
                 \/ blob'[c] = Absent /\ c \in volatile \ volatile'
                 \/ blob'[c] = c /\ \E t \in Threads :
                        At(t, "synced") /\ thread[t].content = c]_files
=============================================================================
