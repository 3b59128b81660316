-------------------------- MODULE IngestionProofs --------------------------
(***************************************************************************)
(* Theorems about the artifact store and about ingestion on top of it, for *)
(* any number of threads, processes and contents, with every crash, failed *)
(* write or rename, damage and loss of power that the model has.           *)
(***************************************************************************)
EXTENDS Ingestion, SequenceTheorems, FiniteSetTheorems, TLAPS

(***************************************************************************)
(* What a step does to the threads.                                        *)
(***************************************************************************)
PutSteps ==
    {"absent", "found", "created", "synced", "raced", "cleanup", "stored"}

\* Steps at which a thread relies on the file at the final path.
Reliant == {"found", "raced", "stored", "verified"}

Putting ==
    [step : PutSteps, content : Contents, purpose : Purposes,
     sequence : 0..MaxTemps]

\* t holds something else, every other thread what it held.
Becomes(t, held) ==
    /\ thread'[t] = held
    /\ \A u \in Threads \ {t} : thread'[u] = thread[u]

LEMMA StatesAreDisjoint ==
    ASSUME NEW s \in ThreadStates
    PROVE  /\ s.step \in PutSteps => s \in Putting
           /\ s.step = "verified" => s \in [step : {"verified"}, content : Contents]
           /\ s.step = "answered" =>
                 s \in [step : {"answered"}, content : Contents,
                        bytes : Files \ {Absent}]
           /\ s.step \in PutSteps \cup {"idle", "verified", "answered"}
           /\ s.step = "idle" => s = Resting
  BY DEF ThreadStates, Putting, PutSteps, Resting

LEMMA SetThread ==
    ASSUME thread \in [Threads -> ThreadStates], NEW t \in Threads,
           NEW held \in ThreadStates, thread' = [thread EXCEPT ![t] = held]
    PROVE  thread' \in [Threads -> ThreadStates] /\ Becomes(t, held)
  BY DEF Becomes

LEMMA PuttingIsState == Putting \subseteq ThreadStates
  BY DEF Putting, ThreadStates, PutSteps

LEMMA GotoFacts ==
    ASSUME thread \in [Threads -> ThreadStates], NEW t \in Threads,
           NEW step \in PutSteps, thread[t].step \in PutSteps, Goto(t, step)
    PROVE  /\ thread' \in [Threads -> ThreadStates]
           /\ \E held \in Putting :
                 /\ Becomes(t, held) /\ held.step = step
                 /\ held.content = thread[t].content
                 /\ held.purpose = thread[t].purpose
                 /\ held.sequence = thread[t].sequence
<1>1. thread[t] \in Putting
  BY StatesAreDisjoint
<1>2. PICK held : held = [thread[t] EXCEPT !.step = step]
  OBVIOUS
<1>3. /\ held \in Putting /\ held.step = step
      /\ held.content = thread[t].content
      /\ held.purpose = thread[t].purpose
      /\ held.sequence = thread[t].sequence
  BY <1>1, <1>2 DEF Putting
<1>4. thread' = [thread EXCEPT ![t] = held]
  BY <1>2 DEF Goto
<1>5. thread' \in [Threads -> ThreadStates] /\ Becomes(t, held)
  BY <1>3, <1>4, PuttingIsState, SetThread
<1> QED
  BY <1>3, <1>5

LEMMA RestFacts ==
    ASSUME thread \in [Threads -> ThreadStates], NEW t \in Threads, Rest(t)
    PROVE  thread' \in [Threads -> ThreadStates] /\ Becomes(t, Resting)
  BY SetThread DEF Rest, ThreadStates

(***************************************************************************)
(* The steps of put and read, by what they do to the files.  After each,   *)
(* the thread t is at held.                                                *)
(***************************************************************************)
SameFile(t, held) ==
    held.sequence = thread[t].sequence /\ held.content = thread[t].content

\* Nothing is written.
Looks(t, held) ==
    /\ UNCHANGED <<blob, temp, counter, volatile, damaged>>
    /\ held.step \notin {"created", "synced"}
    /\ held.step \in Reliant => blob[held.content] # Absent
    /\ held.step = "stored" => /\ blob[held.content] = held.content
                               /\ SameFile(t, held)
    /\ held.step = "answered" => blob[held.content] = held.bytes
    /\ held.step \in {"raced", "cleanup"} =>
          (Owner(t) \/ At(t, "raced")) /\ SameFile(t, held)

\* A temporary file is created, or exists.
Opens(t, held, name) ==
    /\ name = [process |-> ProcessOf[t], sequence |-> held.sequence,
               content |-> held.content]
    /\ held.sequence = counter[ProcessOf[t]] /\ held.sequence < MaxTemps
    /\ counter' = [counter EXCEPT ![ProcessOf[t]] = @ + 1]
    /\ \/ /\ held.step = "created" /\ temp[name] = Absent
          /\ temp' = [temp EXCEPT ![name] = Broken]
       \/ held.step = "cleanup" /\ UNCHANGED temp
    /\ UNCHANGED <<blob, volatile, damaged>>

Fills(t, held) ==
    /\ At(t, "created") /\ held.step = "synced" /\ SameFile(t, held)
    /\ temp' = [temp EXCEPT ![Name(t)] = held.content]
    /\ UNCHANGED <<blob, counter, volatile, damaged>>

Renames(t, held) ==
    /\ At(t, "synced") /\ held.step = "stored" /\ SameFile(t, held)
    /\ temp[Name(t)] # Absent
    /\ blob' = [blob EXCEPT ![held.content] = temp[Name(t)]]
    /\ temp' = [temp EXCEPT ![Name(t)] = Absent]
    /\ volatile' = IF DirectorySynced THEN volatile
                                      ELSE volatile \cup {held.content}
    /\ UNCHANGED <<counter, damaged>>

Removes(t, held) ==
    /\ thread[t].step \in {"synced", "cleanup"}
    /\ \/ held.step = "idle"
       \/ held.step = "raced" /\ blob[held.content] # Absent /\ Owner(t)
          /\ SameFile(t, held)
    /\ temp' = [temp EXCEPT ![Name(t)] = Absent]
    /\ UNCHANGED <<blob, counter, volatile, damaged>>

Steps(t, held) ==
    /\ Becomes(t, held)
    /\ \/ Looks(t, held) \/ Fills(t, held) \/ Renames(t, held)
       \/ Removes(t, held) \/ \E name \in TempNames : Opens(t, held, name)

\* The goal of the lemmas about single steps.
DoesStep(t) ==
    /\ thread' \in [Threads -> ThreadStates]
    /\ \E held \in ThreadStates : Steps(t, held)

LEMMA BeginSteps ==
    ASSUME FilesTypeOK, NEW t \in Threads, NEW c \in Contents,
           \/ \E purpose \in Purposes : BeginPut(t, c, purpose)
           \/ BeginRead(t, c)
    PROVE  DoesStep(t)
<1>1. thread \in [Threads -> ThreadStates] /\ blob[c] \in Files
  BY DEF FilesTypeOK
<1>2. CASE \E purpose \in Purposes : BeginPut(t, c, purpose)
  <2> PICK purpose \in Purposes : BeginPut(t, c, purpose)
    BY <1>2
  <2>1. PICK held : held = [step |-> IF blob[c] = Absent THEN "absent" ELSE "found",
                            content |-> c, purpose |-> purpose, sequence |-> 0]
    OBVIOUS
  <2>2. held \in Putting
    BY <2>1, FilesAssumption DEF Putting, PutSteps
  <2>3. thread' = [thread EXCEPT ![t] = held]
    BY <2>1 DEF BeginPut
  <2>4. Looks(t, held)
    BY <2>1 DEF BeginPut, Looks, Reliant
  <2>5. held \in ThreadStates
    BY <2>2, PuttingIsState
  <2> QED
    BY <1>1, <2>3, <2>4, <2>5, SetThread DEF DoesStep, Steps
<1>3. CASE BeginRead(t, c)
  <2>1. PICK held : held = [step |-> "verified", content |-> c]
    OBVIOUS
  <2>2. held \in ThreadStates
    BY <2>1 DEF ThreadStates
  <2>3. thread' = [thread EXCEPT ![t] = held]
    BY <1>3, <2>1 DEF BeginRead
  <2>4. Looks(t, held)
    BY <1>3, <2>1, FilesAssumption DEF BeginRead, Looks
  <2> QED
    BY <1>1, <2>2, <2>3, <2>4, SetThread DEF DoesStep, Steps
<1> QED
  BY <1>2, <1>3

LEMMA ReadSteps ==
    ASSUME FilesTypeOK, NEW t \in Threads, ReadStep(t)
    PROVE  DoesStep(t)
<1>1. thread \in [Threads -> ThreadStates]
  BY DEF FilesTypeOK
<1>2. CASE FinishRead(t)
  <2>1. PICK c : c = thread[t].content
    OBVIOUS
  <2>2. c \in Contents
    BY <1>1, <1>2, <2>1, StatesAreDisjoint DEF FinishRead, At
  <2>3. PICK held : held = [step |-> "answered", content |-> c,
                            bytes |-> blob[c]]
    OBVIOUS
  <2>4. held \in ThreadStates
    BY <1>2, <2>1, <2>2, <2>3 DEF ThreadStates, FinishRead, FilesTypeOK
  <2>5. thread' = [thread EXCEPT ![t] = held]
    BY <1>2, <2>1, <2>3 DEF FinishRead
  <2>6. Looks(t, held)
    BY <1>2, <2>3 DEF FinishRead, Looks, Reliant
  <2> QED
    BY <1>1, <2>4, <2>5, <2>6, SetThread DEF DoesStep, Steps
<1>3. CASE EndRead(t)
  BY <1>1, <1>3, RestFacts
  DEF EndRead, DoesStep, Steps, Looks, Resting, ThreadStates, Reliant
<1> QED
  BY <1>2, <1>3 DEF ReadStep

LEMMA RestingSteps ==
    ASSUME FilesTypeOK, NEW t \in Threads, Rest(t),
           UNCHANGED <<blob, temp, counter, volatile, damaged>>
    PROVE  DoesStep(t)
  BY RestFacts DEF FilesTypeOK, DoesStep, Steps, Looks, Resting, ThreadStates, Reliant

LEMMA CreateSteps ==
    ASSUME FilesTypeOK, NEW t \in Threads, CreateTemp(t)
    PROVE  DoesStep(t)
<1>1. /\ thread \in [Threads -> ThreadStates]
      /\ counter \in [Processes -> 0..MaxTemps]
      /\ ProcessOf[t] \in Processes
  BY FilesAssumption DEF FilesTypeOK
<1>2. thread[t] \in Putting
  BY <1>1, StatesAreDisjoint DEF CreateTemp, At, PutSteps
<1>3. PICK n, name :
         /\ n = counter[ProcessOf[t]]
         /\ name = [process |-> ProcessOf[t], sequence |-> n,
                    content |-> thread[t].content]
  OBVIOUS
<1>4. n \in 0..MaxTemps /\ n < MaxTemps /\ MaxTemps \in Nat
  BY <1>1, <1>3, FilesAssumption DEF CreateTemp
<1>5. name \in TempNames
  <2>1. n \in 0..(MaxTemps - 1)
    BY <1>4
  <2> QED
    BY <1>1, <1>2, <1>3, <2>1 DEF TempNames, Putting
<1>6. PICK opened \in BOOLEAN :
         /\ opened => temp[name] = Absent
         /\ thread' = [thread EXCEPT
                ![t].sequence = n,
                ![t].step = IF opened THEN "created" ELSE "cleanup"]
         /\ temp' = IF opened THEN [temp EXCEPT ![name] = Broken] ELSE temp
  BY <1>3 DEF CreateTemp, Sequence
<1>7. PICK step, held :
         /\ step = IF opened THEN "created" ELSE "cleanup"
         /\ held = [thread[t] EXCEPT !.sequence = n, !.step = step]
  OBVIOUS
<1>8. /\ held \in Putting /\ held.step = step /\ held.sequence = n
      /\ held.content = thread[t].content
  BY <1>2, <1>4, <1>7 DEF Putting, PutSteps
<1>9. thread' = [thread EXCEPT ![t].sequence = n, ![t].step = step]
  BY <1>6, <1>7
<1>10. thread' = [thread EXCEPT ![t] = held]
  BY <1>1, <1>7, <1>9
<1>11. held \in ThreadStates
  BY <1>8, PuttingIsState
<1>12. thread' \in [Threads -> ThreadStates] /\ Becomes(t, held)
  BY <1>1, <1>10, <1>11, SetThread
<1>13. counter' = [counter EXCEPT ![ProcessOf[t]] = @ + 1]
       /\ UNCHANGED <<blob, volatile, damaged>>
  BY <1>3 DEF CreateTemp, Sequence
<1>14. Opens(t, held, name)
  BY <1>3, <1>4, <1>6, <1>7, <1>8, <1>13 DEF Opens
<1> QED
  BY <1>5, <1>11, <1>12, <1>14 DEF DoesStep, Steps

LEMMA PutDoes ==
    ASSUME FilesTypeOK, NEW t \in Threads, PutStep(t)
    PROVE  DoesStep(t)
<1>1. thread \in [Threads -> ThreadStates]
  BY DEF FilesTypeOK
<1>2. ASSUME NEW step \in PutSteps, thread[t].step \in PutSteps, Goto(t, step)
      PROVE  /\ thread' \in [Threads -> ThreadStates]
             /\ \E held \in ThreadStates :
                   /\ Becomes(t, held) /\ held.step = step
                   /\ SameFile(t, held)
  BY <1>1, <1>2, GotoFacts, PuttingIsState DEF SameFile
<1>3. CASE AcceptFound(t)
  <2>1. /\ "stored" \in PutSteps /\ thread[t].step \in PutSteps
        /\ Goto(t, "stored")
    BY <1>3 DEF AcceptFound, PutSteps
  <2>2. PICK held \in ThreadStates :
           Becomes(t, held) /\ held.step = "stored" /\ SameFile(t, held)
    BY <1>2, <2>1
  <2>3. Looks(t, held)
    BY <1>1, <1>3, <2>2, StatesAreDisjoint, FilesAssumption
    DEF AcceptFound, Looks, SameFile, At, PutSteps, Putting
  <2> QED
    BY <1>2, <2>1, <2>2, <2>3 DEF DoesStep, Steps
<1>4. CASE RejectFound(t) \/ FailCreate(t)
  BY <1>4, RestingSteps DEF RejectFound, FailCreate
<1>5. CASE CreateTemp(t)
  BY <1>5, CreateSteps
<1>6. CASE WriteTemp(t)
  <2>1. /\ "synced" \in PutSteps /\ thread[t].step \in PutSteps
        /\ Goto(t, "synced")
    BY <1>6 DEF WriteTemp, At, PutSteps
  <2>2. PICK held \in ThreadStates :
           Becomes(t, held) /\ held.step = "synced" /\ SameFile(t, held)
    BY <1>2, <2>1
  <2>3. Fills(t, held)
    BY <1>6, <2>2 DEF WriteTemp, Fills, SameFile
  <2> QED
    BY <1>2, <2>1, <2>2, <2>3 DEF DoesStep, Steps
<1>7. CASE FailWrite(t)
  <2>1. /\ "cleanup" \in PutSteps /\ thread[t].step \in PutSteps
        /\ Goto(t, "cleanup")
    BY <1>7 DEF FailWrite, At, PutSteps
  <2>2. PICK held \in ThreadStates :
           Becomes(t, held) /\ held.step = "cleanup" /\ SameFile(t, held)
    BY <1>2, <2>1
  <2>3. Looks(t, held)
    BY <1>7, <2>2 DEF FailWrite, Looks, Owner, At, Reliant
  <2> QED
    BY <1>2, <2>1, <2>2, <2>3 DEF DoesStep, Steps
<1>8. CASE Publish(t)
  <2>1. /\ "stored" \in PutSteps /\ thread[t].step \in PutSteps
        /\ Goto(t, "stored")
    BY <1>8 DEF Publish, At, PutSteps
  <2>2. PICK held \in ThreadStates :
           Becomes(t, held) /\ held.step = "stored" /\ SameFile(t, held)
    BY <1>2, <2>1
  <2>3. Renames(t, held)
    BY <1>8, <2>2 DEF Publish, Renames, SameFile
  <2> QED
    BY <1>2, <2>1, <2>2, <2>3 DEF DoesStep, Steps
<1>9. CASE FailPublish(t) /\ blob[thread[t].content] # Absent
  <2>1. /\ "raced" \in PutSteps /\ thread[t].step \in PutSteps
        /\ Goto(t, "raced") /\ Owner(t)
    BY <1>9 DEF FailPublish, At, PutSteps, Owner
  <2>2. PICK held \in ThreadStates :
           Becomes(t, held) /\ held.step = "raced" /\ SameFile(t, held)
    BY <1>2, <2>1
  <2>3. CASE temp' = [temp EXCEPT ![Name(t)] = Absent]
    <3>1. Removes(t, held)
      BY <1>9, <2>1, <2>2, <2>3 DEF FailPublish, Removes, SameFile, At
    <3> QED
      BY <1>2, <2>1, <2>2, <3>1 DEF DoesStep, Steps
  <2>4. CASE UNCHANGED temp
    <3>1. Looks(t, held)
      BY <1>9, <2>1, <2>2, <2>4 DEF FailPublish, Looks, SameFile
    <3> QED
      BY <1>2, <2>1, <2>2, <3>1 DEF DoesStep, Steps
  <2> QED
    BY <1>9, <2>3, <2>4 DEF FailPublish, MayRemove
<1>10. CASE FailPublish(t) /\ blob[thread[t].content] = Absent
  <2>1. /\ "cleanup" \in PutSteps /\ thread[t].step \in PutSteps
        /\ Goto(t, "cleanup")
    BY <1>10 DEF FailPublish, At, PutSteps
  <2>2. PICK held \in ThreadStates :
           Becomes(t, held) /\ held.step = "cleanup" /\ SameFile(t, held)
    BY <1>2, <2>1
  <2>3. Looks(t, held)
    BY <1>10, <2>2 DEF FailPublish, Looks, Owner, At, Reliant
  <2> QED
    BY <1>2, <2>1, <2>2, <2>3 DEF DoesStep, Steps
<1>11. CASE Cleanup(t) /\ UNCHANGED temp
  BY <1>11, RestingSteps DEF Cleanup
<1>12. CASE Cleanup(t) /\ temp' = [temp EXCEPT ![Name(t)] = Absent]
  <2>1. Removes(t, Resting)
    BY <1>12 DEF Cleanup, Removes, Resting, At
  <2> QED
    BY <1>1, <1>12, <2>1, RestFacts
    DEF Cleanup, DoesStep, Steps, ThreadStates
<1>13. Cleanup(t) => UNCHANGED temp \/ temp' = [temp EXCEPT ![Name(t)] = Absent]
  BY DEF Cleanup, MayRemove
<1>14. CASE RejectRaced(t)
  <2>1. /\ "cleanup" \in PutSteps /\ thread[t].step \in PutSteps
        /\ Goto(t, "cleanup")
    BY <1>14 DEF RejectRaced, At, PutSteps
  <2>2. PICK held \in ThreadStates :
           Becomes(t, held) /\ held.step = "cleanup" /\ SameFile(t, held)
    BY <1>2, <2>1
  <2>3. Looks(t, held)
    BY <1>14, <2>2 DEF RejectRaced, Looks, At, Reliant
  <2> QED
    BY <1>2, <2>1, <2>2, <2>3 DEF DoesStep, Steps
<1> QED
  BY <1>3, <1>4, <1>5, <1>6, <1>7, <1>8, <1>9, <1>10, <1>11, <1>12, <1>13, <1>14
  DEF PutStep

\* A step of the store: of a thread, of the environment, or none.
LEMMA FilesCases ==
    ASSUME FilesTypeOK, [FilesNext]_files
    PROVE  \/ \E t \in Threads : DoesStep(t)
           \/ Environment
           \/ UNCHANGED files
<1>1. ASSUME NEW t \in Threads,
             \/ \E c \in Contents, purpose \in Purposes : BeginPut(t, c, purpose)
             \/ \E c \in Contents : BeginRead(t, c)
             \/ PutStep(t) \/ EndPut(t) \/ ReadStep(t)
      PROVE  DoesStep(t)
  <2>1. CASE EndPut(t)
    BY <2>1, RestingSteps DEF EndPut
  <2>2. CASE PutStep(t)
    BY <2>2, PutDoes
  <2>3. CASE ReadStep(t)
    BY <2>3, ReadSteps
  <2>4. CASE \/ \E c \in Contents, purpose \in Purposes : BeginPut(t, c, purpose)
             \/ \E c \in Contents : BeginRead(t, c)
    BY <2>4, BeginSteps
  <2> QED
    BY <1>1, <2>1, <2>2, <2>3, <2>4
<1> QED
  BY <1>1 DEF FilesNext

(***************************************************************************)
(* Types                                                                   *)
(***************************************************************************)

\* Sequence numbers of names that are in use were drawn from the counter.
SequencesDrawn ==
    \A t \in Threads : (Owner(t) \/ Removing(t)) =>
        thread[t].sequence < counter[ProcessOf[t]]

LEMMA NameType ==
    ASSUME FilesTypeOK, SequencesDrawn, NEW t \in Threads,
           Owner(t) \/ Removing(t)
    PROVE  thread[t] \in Putting /\ Name(t) \in TempNames
<1>1. thread[t] \in Putting
  BY StatesAreDisjoint DEF FilesTypeOK, Owner, At, PutSteps, Removing
<1>2. ProcessOf[t] \in Processes /\ counter[ProcessOf[t]] \in 0..MaxTemps
  BY FilesAssumption DEF FilesTypeOK
<1>3. thread[t].sequence \in 0..MaxTemps /\ thread[t].content \in Contents
  BY <1>1 DEF Putting
<1>4. thread[t].sequence \in 0..(MaxTemps - 1)
  BY <1>2, <1>3, FilesAssumption DEF SequencesDrawn
<1> QED
  BY <1>1, <1>2, <1>3, <1>4 DEF Name, TempNames

LEMMA StepFiles ==
    ASSUME FilesTypeOK, SequencesDrawn, NEW t \in Threads, NEW held \in ThreadStates,
           Steps(t, held)
    PROVE  /\ blob' \in [Contents -> Files] /\ temp' \in [TempNames -> Files]
           /\ counter' \in [Processes -> 0..MaxTemps]
           /\ volatile' \subseteq Contents /\ damaged' = damaged
           /\ \A c \in Contents : blob[c] # Absent => blob'[c] # Absent
           /\ held.step \in Reliant => blob'[held.content] # Absent
<1>1. /\ blob \in [Contents -> Files] /\ temp \in [TempNames -> Files]
      /\ counter \in [Processes -> 0..MaxTemps] /\ volatile \subseteq Contents
  BY DEF FilesTypeOK
<1>2. CASE Looks(t, held)
  BY <1>1, <1>2 DEF Looks
<1>3. held.step \in PutSteps => held.content \in Contents
  BY StatesAreDisjoint DEF Putting
<1>4. CASE Fills(t, held)
  BY <1>1, <1>3, <1>4 DEF Fills, Files, PutSteps, Reliant
<1>5. CASE Renames(t, held)
  <2>1. held.content \in Contents
    BY <1>3, <1>5 DEF Renames, PutSteps
  <2>2. Name(t) \in TempNames
    BY <1>5, NameType DEF Renames, At, Owner
  <2> QED
    BY <1>1, <1>5, <2>1, <2>2 DEF Renames, Files
<1>6. CASE Removes(t, held)
  BY <1>1, <1>6 DEF Removes, Files, Reliant
<1>7. ASSUME NEW name \in TempNames, Opens(t, held, name)
      PROVE  /\ temp' \in [TempNames -> Files]
             /\ counter' \in [Processes -> 0..MaxTemps]
             /\ UNCHANGED <<blob, volatile, damaged>>
             /\ held.step \notin Reliant
  <2>1. temp' \in [TempNames -> Files]
    BY <1>1, <1>7 DEF Opens, Files
  <2>2. counter' \in [Processes -> 0..MaxTemps]
    <3>1. counter[ProcessOf[t]] + 1 \in 0..MaxTemps
      BY <1>1, <1>7, FilesAssumption DEF Opens
    <3> QED
      BY <1>1, <1>7, <3>1 DEF Opens
  <2> QED
    BY <1>7, <2>1, <2>2 DEF Opens, Reliant
<1> QED
  BY <1>1, <1>2, <1>4, <1>5, <1>6, <1>7 DEF Steps

(***************************************************************************)
(* Temporary files are owned.                                              *)
(***************************************************************************)
FileOf(t, held) ==
    [process |-> ProcessOf[t], sequence |-> held.sequence,
     content |-> held.content]

Uses(t) == Owner(t) \/ Removing(t)

Owning(held) == held.step \in {"created", "synced"}

Discarding(held) == held.step \in {"raced", "cleanup"}

\* What the thread t of a step has to show; the other threads then keep what
\* they had.
LEMMA OwnedAfter ==
    ASSUME FilesTypeOK, SequencesDrawn, TempsAreOwned, NEW t \in Threads,
           NEW held, Becomes(t, held), NEW n, n = FileOf(t, held),
           \A p \in Processes : counter'[p] >= counter[p],
           counter' \in [Processes -> 0..MaxTemps],
           \A u \in Threads \ {t} : Owner(u) => temp'[Name(u)] = temp[Name(u)],
           Owning(held) \/ Discarding(held) =>
               /\ held.sequence < counter'[ProcessOf[t]]
               /\ \A u \in Threads \ {t} : Owner(u) => Name(u) # n,
           Owning(held) => \A u \in Threads \ {t} : Uses(u) => Name(u) # n,
           Owning(held) => temp'[n] # Absent,
           held.step = "synced" => temp'[n] = held.content
    PROVE  SequencesDrawn' /\ TempsAreOwned'
<1>1. /\ \A u \in Threads \ {t} : /\ Name(u)' = Name(u)
                                  /\ Owner(u)' <=> Owner(u)
                                  /\ Removing(u)' <=> Removing(u)
                                  /\ At(u, "synced")' <=> At(u, "synced")
                                  /\ thread'[u] = thread[u]
      /\ Name(t)' = n /\ (Owner(t)' <=> Owning(held))
      /\ Removing(t)' <=> Discarding(held)
      /\ At(t, "synced")' <=> held.step = "synced"
      /\ thread'[t] = held
  BY DEF Becomes, Name, FileOf, Owner, Removing, At, Owning, Discarding
<1>2. ASSUME NEW u \in Threads \ {t}, Uses(u)
      PROVE  thread[u].sequence < counter'[ProcessOf[u]]
  <2>1. thread[u].sequence < counter[ProcessOf[u]]
    BY <1>2 DEF SequencesDrawn, Uses
  <2>2. /\ counter'[ProcessOf[u]] >= counter[ProcessOf[u]]
        /\ counter[ProcessOf[u]] \in Int /\ counter'[ProcessOf[u]] \in Int
    BY FilesAssumption DEF FilesTypeOK
  <2>3. thread[u].sequence \in Int
    BY <1>2, NameType, FilesAssumption DEF Uses, Putting
  <2> QED
    BY <2>1, <2>2, <2>3
<1>3. SequencesDrawn'
  BY <1>1, <1>2 DEF SequencesDrawn, Uses
<1>4. ASSUME NEW u \in Threads, Owner(u)'
      PROVE  /\ thread'[u].sequence < counter'[ProcessOf[u]]
             /\ temp'[Name(u)'] # Absent
             /\ At(u, "synced")' => temp'[Name(u)'] = thread'[u].content
             /\ \A w \in Threads \ {u} :
                   (Owner(w)' \/ Removing(w)') => Name(w)' # Name(u)'
  <2>1. CASE u = t
    BY <1>1, <1>4, <2>1 DEF Uses
  <2>2. CASE u # t
    <3>1. /\ Owner(u) /\ Name(u)' = Name(u) /\ temp'[Name(u)] = temp[Name(u)]
          /\ At(u, "synced")' <=> At(u, "synced")
          /\ thread'[u] = thread[u] /\ Uses(u)
      BY <1>1, <1>4, <2>2 DEF Uses
    <3>2. /\ temp[Name(u)] # Absent
          /\ At(u, "synced") => temp[Name(u)] = thread[u].content
          /\ \A w \in Threads \ {u} : Uses(w) => Name(w) # Name(u)
      BY <3>1 DEF TempsAreOwned, Uses
    <3>3. ASSUME NEW w \in Threads \ {u}, Owner(w)' \/ Removing(w)'
          PROVE  Name(w)' # Name(u)'
      <4>1. CASE w = t
        BY <1>1, <2>2, <3>1, <3>3, <4>1
      <4>2. CASE w # t
        BY <1>1, <3>1, <3>2, <3>3, <4>2 DEF Uses
      <4> QED
        BY <4>1, <4>2
    <3> QED
      BY <1>2, <2>2, <3>1, <3>2, <3>3
  <2> QED
    BY <2>1, <2>2
<1> QED
  BY <1>3, <1>4 DEF TempsAreOwned

LEMMA StepOwned ==
    ASSUME FilesTypeOK, SequencesDrawn, TempsAreOwned, NEW t \in Threads,
           NEW held \in ThreadStates, Steps(t, held)
    PROVE  SequencesDrawn' /\ TempsAreOwned'
<1>1. /\ temp \in [TempNames -> Files]
      /\ counter \in [Processes -> 0..MaxTemps]
      /\ counter' \in [Processes -> 0..MaxTemps]
      /\ ProcessOf[t] \in Processes /\ Becomes(t, held)
  BY StepFiles, FilesAssumption DEF FilesTypeOK, Steps
<1>2. PICK n : n = FileOf(t, held)
  OBVIOUS
<1>3. Uses(t) => \A u \in Threads \ {t} : Owner(u) => Name(u) # Name(t)
  BY DEF TempsAreOwned, Uses
<1>4. Owner(t) => \A u \in Threads \ {t} : Uses(u) => Name(u) # Name(t)
  BY DEF TempsAreOwned, Uses
<1>5. SameFile(t, held) => n = Name(t)
  BY <1>2 DEF SameFile, FileOf, Name
<1>6. \A u \in Threads : Uses(u) => Name(u) \in TempNames
  BY NameType DEF Uses
<1>7. CASE counter' = counter
  <2>1. \A p \in Processes : counter'[p] >= counter[p]
    BY <1>1, <1>7
  <2>2. CASE Looks(t, held)
    <3>1. ~Owning(held) /\ temp' = temp
      BY <2>2 DEF Looks, Owning
    <3>2. Discarding(held) =>
             /\ held.sequence < counter'[ProcessOf[t]]
             /\ \A u \in Threads \ {t} : Owner(u) => Name(u) # n
      <4>1. SUFFICES ASSUME Discarding(held)
                     PROVE  /\ held.sequence < counter'[ProcessOf[t]]
                            /\ \A u \in Threads \ {t} : Owner(u) => Name(u) # n
        OBVIOUS
      <4>2. Uses(t) /\ SameFile(t, held)
        BY <2>2, <4>1 DEF Looks, Discarding, Uses, Removing, At
      <4> QED
        BY <1>3, <1>5, <1>7, <4>2 DEF SameFile, SequencesDrawn, Uses
    <3>3. held.step # "synced"
      BY <3>1 DEF Owning
    <3> QED
      BY <1>1, <1>2, <2>1, <3>1, <3>2, <3>3, OwnedAfter
  <2>3. CASE Fills(t, held)
    <3>1. Owner(t) /\ SameFile(t, held) /\ n = Name(t) /\ Uses(t)
      BY <1>5, <2>3 DEF Fills, Owner, At, Uses
    <3>2. /\ temp'[n] = held.content
          /\ \A m \in TempNames \ {n} : temp'[m] = temp[m]
      BY <1>1, <1>6, <2>3, <3>1 DEF Fills
    <3>3. held.content # Absent
      <4>1. held \in Putting
        BY <2>3, StatesAreDisjoint DEF Fills, PutSteps
      <4> QED
        BY <4>1, FilesAssumption DEF Putting
    <3>4. \A u \in Threads \ {t} : Owner(u) => temp'[Name(u)] = temp[Name(u)]
      BY <1>3, <1>6, <3>1, <3>2 DEF Uses
    <3>5. held.sequence < counter'[ProcessOf[t]]
      BY <1>7, <3>1 DEF SameFile, SequencesDrawn
    <3>6. \A u \in Threads \ {t} : Uses(u) => Name(u) # n
      BY <1>4, <3>1
    <3>7. temp'[n] # Absent /\ temp'[n] = held.content
      BY <3>2, <3>3
    <3>8. ~Discarding(held)
      BY <2>3 DEF Fills, Discarding
    <3> QED
      BY <1>1, <1>2, <2>1, <3>4, <3>5, <3>6, <3>7, <3>8, OwnedAfter DEF Uses
  <2>4. CASE Renames(t, held) \/ Removes(t, held)
    <3>1. Uses(t) /\ temp' = [temp EXCEPT ![Name(t)] = Absent]
      BY <2>4 DEF Renames, Removes, Uses, Owner, Removing, At
    <3>2. \A u \in Threads \ {t} : Owner(u) => temp'[Name(u)] = temp[Name(u)]
      BY <1>1, <1>3, <1>6, <3>1 DEF Uses
    <3>3. ~Owning(held) /\ held.step # "synced"
      BY <2>4 DEF Renames, Removes, Owning
    <3>4. Discarding(held) => SameFile(t, held)
      BY <2>4 DEF Renames, Removes, Discarding
    <3>5. Discarding(held) =>
             /\ held.sequence < counter'[ProcessOf[t]]
             /\ \A u \in Threads \ {t} : Owner(u) => Name(u) # n
      BY <1>3, <1>5, <1>7, <3>1, <3>4 DEF SameFile, SequencesDrawn, Uses
    <3> QED
      BY <1>1, <1>2, <2>1, <3>2, <3>3, <3>5, OwnedAfter
  <2> QED
    <3>1. ASSUME NEW name, Opens(t, held, name) PROVE FALSE
      <4>1. counter'[ProcessOf[t]] = counter[ProcessOf[t]] + 1
        BY <1>1, <3>1 DEF Opens
      <4> QED
        BY <1>1, <1>7, <4>1
    <3> QED
      BY <2>2, <2>3, <2>4, <3>1 DEF Steps
<1>8. ASSUME NEW name \in TempNames, Opens(t, held, name)
      PROVE  SequencesDrawn' /\ TempsAreOwned'
  <2>1. name = n /\ held.sequence = counter[ProcessOf[t]]
    BY <1>2, <1>8 DEF Opens, FileOf
  <2>2. /\ counter'[ProcessOf[t]] = counter[ProcessOf[t]] + 1
        /\ \A p \in Processes \ {ProcessOf[t]} : counter'[p] = counter[p]
    BY <1>1, <1>8 DEF Opens
  <2>3. /\ \A p \in Processes : counter'[p] >= counter[p]
        /\ held.sequence < counter'[ProcessOf[t]]
    BY <1>1, <2>1, <2>2
  <2>4. ASSUME NEW u \in Threads \ {t}, Uses(u)
        PROVE  Name(u) # n
    <3>1. CASE ProcessOf[u] = ProcessOf[t]
      <4>1. thread[u].sequence < counter[ProcessOf[t]]
        BY <2>4, <3>1 DEF SequencesDrawn, Uses
      <4>2. thread[u].sequence # held.sequence
        BY <1>1, <2>1, <4>1
      <4> QED
        BY <1>2, <4>2 DEF Name, FileOf
    <3>2. CASE ProcessOf[u] # ProcessOf[t]
      BY <1>2, <3>2 DEF Name, FileOf
    <3> QED
      BY <3>1, <3>2
  <2>5. \A u \in Threads \ {t} : Owner(u) => temp'[Name(u)] = temp[Name(u)]
    BY <1>1, <1>6, <1>8, <2>1, <2>4 DEF Opens, Uses
  <2>6. /\ Owning(held) => temp'[n] # Absent
        /\ held.step # "synced"
    BY <1>1, <1>8, <2>1, FilesAssumption DEF Opens, Owning
  <2> QED
    BY <1>1, <1>2, <2>3, <2>4, <2>5, <2>6, OwnedAfter DEF Uses
<1>9. Looks(t, held) \/ Fills(t, held) \/ Renames(t, held) \/ Removes(t, held)
          => counter' = counter
  BY DEF Looks, Fills, Renames, Removes
<1> QED
  BY <1>7, <1>8, <1>9 DEF Steps

\* A crash makes threads rest and counters start again, but of one process
\* together.
LEMMA EnvironmentFiles ==
    ASSUME FilesTypeOK, SequencesDrawn, TempsAreOwned, Environment
    PROVE  FilesTypeOK' /\ SequencesDrawn' /\ TempsAreOwned'
<1>1. /\ blob \in [Contents -> Files] /\ temp \in [TempNames -> Files]
      /\ counter \in [Processes -> 0..MaxTemps]
      /\ thread \in [Threads -> ThreadStates]
      /\ volatile \subseteq Contents /\ damaged \subseteq Contents
      /\ MaxTemps \in Nat /\ ProcessOf \in [Threads -> Processes]
      /\ Resting \in ThreadStates
  BY FilesAssumption DEF FilesTypeOK, ThreadStates
<1>2. ~(Resting.step \in PutSteps \cup {"verified"})
  BY DEF Resting, PutSteps
<1>3. ASSUME NEW p \in Processes, Crash(p)
      PROVE  FilesTypeOK' /\ SequencesDrawn' /\ TempsAreOwned'
  <2>1. /\ thread' = [t \in Threads |->
                         IF ProcessOf[t] = p THEN Resting ELSE thread[t]]
        /\ counter' \in {counter, [counter EXCEPT ![p] = 0]}
        /\ UNCHANGED <<blob, temp, volatile, damaged>>
    BY <1>3 DEF Crash
  <2>2. /\ thread' \in [Threads -> ThreadStates]
        /\ counter' \in [Processes -> 0..MaxTemps]
    BY <1>1, <2>1
  <2>3. \A t \in Threads :
           \/ thread'[t] = Resting
           \/ /\ thread'[t] = thread[t]
              /\ counter'[ProcessOf[t]] = counter[ProcessOf[t]]
    BY <1>1, <2>1
  <2>4. FilesTypeOK'
    BY <1>1, <1>2, <2>1, <2>2, <2>3 DEF FilesTypeOK, PutSteps, Relying
  <2>5. \A t \in Threads : Uses(t)' =>
           /\ Uses(t) /\ thread'[t] = thread[t] /\ Name(t)' = Name(t)
           /\ Owner(t)' <=> Owner(t)
           /\ At(t, "synced")' <=> At(t, "synced")
           /\ counter'[ProcessOf[t]] = counter[ProcessOf[t]]
    BY <1>2, <2>3 DEF Uses, Owner, At, Name, PutSteps, Removing
  <2>6. SequencesDrawn'
    BY <2>5 DEF SequencesDrawn, Uses
  <2>7. TempsAreOwned'
    <3>1. ASSUME NEW t \in Threads, Owner(t)'
          PROVE  /\ thread'[t].sequence < counter'[ProcessOf[t]]
                 /\ temp'[Name(t)'] # Absent
                 /\ At(t, "synced")' => temp'[Name(t)'] = thread'[t].content
                 /\ \A u \in Threads \ {t} :
                       (Owner(u)' \/ Removing(u)') => Name(u)' # Name(t)'
      BY <2>1, <2>5, <3>1 DEF TempsAreOwned, Uses
    <3> QED
      BY <3>1 DEF TempsAreOwned
  <2> QED
    BY <2>4, <2>6, <2>7
<1>4. CASE LosePower
  <2>1. \A t \in Threads : thread'[t] = Resting
    BY <1>4 DEF LosePower
  <2>2. FilesTypeOK'
    <3>1. /\ blob' \in [Contents -> Files] /\ thread' \in [Threads -> ThreadStates]
          /\ counter' \in [Processes -> 0..MaxTemps]
      BY <1>1, <1>4 DEF LosePower, Files
    <3> QED
      BY <1>1, <1>2, <1>4, <2>1, <3>1 DEF LosePower, FilesTypeOK, PutSteps, Relying
  <2>3. \A t \in Threads : ~Uses(t)'
    BY <1>2, <2>1 DEF Uses, Owner, At, PutSteps, Removing
  <2> QED
    BY <2>2, <2>3 DEF SequencesDrawn, TempsAreOwned, Uses
<1>5. CASE \E c \in Contents : Settle \/ Damage(c)
  <2>1. PICK c \in Contents : Settle \/ Damage(c)
    BY <1>5
  <2>2. /\ UNCHANGED <<temp, counter, thread>>
        /\ volatile' \subseteq Contents /\ damaged' \subseteq Contents
        /\ blob' = blob \/ blob' = [blob EXCEPT ![c] = Broken]
    BY <1>1, <2>1 DEF Settle, Damage
  <2>3. /\ blob' \in [Contents -> Files]
        /\ \A d \in Contents : blob[d] # Absent => blob'[d] # Absent
    BY <1>1, <2>2, FilesAssumption DEF Files
  <2>4. \A t \in Threads : Relying(t) => thread[t].content \in Contents
    BY <1>1, StatesAreDisjoint DEF PutSteps, Putting, Relying
  <2>5. FilesTypeOK'
    BY <1>1, <2>2, <2>3, <2>4 DEF FilesTypeOK, Relying
  <2> QED
    BY <2>2, <2>5 DEF SequencesDrawn, TempsAreOwned, Owner, At, Name, Removing
<1>6. CASE Settle
  <2>1. \E c \in Contents : TRUE
    BY <1>1, <1>6 DEF Settle
  <2> QED
    BY <1>5, <1>6, <2>1
<1> QED
  BY <1>3, <1>4, <1>5, <1>6 DEF Environment

LEMMA FilesStep ==
    ASSUME FilesTypeOK, SequencesDrawn, TempsAreOwned, [FilesNext]_files
    PROVE  FilesTypeOK' /\ SequencesDrawn' /\ TempsAreOwned'
<1>1. ASSUME NEW t \in Threads, DoesStep(t)
      PROVE  FilesTypeOK' /\ SequencesDrawn' /\ TempsAreOwned'
  <2>1. /\ thread \in [Threads -> ThreadStates]
        /\ thread' \in [Threads -> ThreadStates]
        /\ damaged \subseteq Contents
    BY <1>1 DEF FilesTypeOK, DoesStep
  <2>2. PICK held \in ThreadStates : Steps(t, held)
    BY <1>1 DEF DoesStep
  <2>3. SequencesDrawn' /\ TempsAreOwned'
    BY <2>2, StepOwned
  <2>4. /\ blob' \in [Contents -> Files] /\ temp' \in [TempNames -> Files]
        /\ counter' \in [Processes -> 0..MaxTemps]
        /\ volatile' \subseteq Contents /\ damaged' = damaged
        /\ \A c \in Contents : blob[c] # Absent => blob'[c] # Absent
        /\ held.step \in Reliant => blob'[held.content] # Absent
    BY <2>2, StepFiles
  <2>5. ASSUME NEW u \in Threads, Relying(u)'
        PROVE  blob'[thread'[u].content] # Absent
    <3>1. CASE u = t
      BY <2>2, <2>4, <2>5, <3>1 DEF Steps, Becomes, Relying, Reliant
    <3>2. CASE u # t
      <4>1. thread'[u] = thread[u]
        BY <2>2, <3>2 DEF Steps, Becomes
      <4>2. thread[u].content \in Contents
        BY <2>1, <2>5, <4>1, StatesAreDisjoint DEF PutSteps, Putting, Relying
      <4> QED
        BY <2>4, <2>5, <4>1, <4>2 DEF FilesTypeOK, Relying
    <3> QED
      BY <3>1, <3>2
  <2> QED
    BY <2>1, <2>3, <2>4, <2>5 DEF FilesTypeOK
<1>2. CASE UNCHANGED files
  BY <1>2 DEF files, FilesTypeOK, SequencesDrawn, TempsAreOwned, Owner, At, Name,
              Relying, Removing
<1> QED
  BY <1>1, <1>2, FilesCases, EnvironmentFiles

FilesInv == FilesTypeOK /\ SequencesDrawn /\ TempsAreOwned

LEMMA FilesStart == FilesInit => FilesInv
<1> SUFFICES ASSUME FilesInit PROVE FilesInv
  OBVIOUS
<1>1. \A t \in Threads : thread[t] = Resting
  BY DEF FilesInit
<1>2. \A t \in Threads : ~Owner(t) /\ ~Removing(t)
  BY <1>1 DEF Owner, At, Resting, Removing
<1>3. /\ blob \in [Contents -> Files] /\ temp \in [TempNames -> Files]
      /\ counter \in [Processes -> 0..MaxTemps]
      /\ thread \in [Threads -> ThreadStates]
  BY FilesAssumption DEF FilesInit, Files, ThreadStates
<1>4. FilesTypeOK
  BY <1>1, <1>3 DEF FilesInit, FilesTypeOK, Resting, Relying
<1> QED
  BY <1>2, <1>4 DEF FilesInv, SequencesDrawn, TempsAreOwned

LEMMA FilesInvariant == FilesSpec => []FilesInv
<1>1. FilesInv /\ [FilesNext]_files => FilesInv'
  BY FilesStep DEF FilesInv
<1> QED
  BY <1>1, FilesStart, PTL DEF FilesSpec

\* A file that a thread of put or read counts on stays at its final path: no
\* step of the program removes one, and a loss of power ends its threads.
THEOREM FilesTypeCorrect == FilesSpec => []FilesTypeOK
<1>1. FilesInv => FilesTypeOK
  BY DEF FilesInv
<1> QED
  BY <1>1, FilesInvariant, PTL

\* Threads never write into each other's temporary files, although process ids
\* and sequence numbers are used again: put's names in use carry numbers that
\* the counter of their process has passed, and create_new refuses the rest.
THEOREM TempsStayOwned == FilesSpec => []TempsAreOwned
<1>1. FilesInv => TempsAreOwned
  BY DEF FilesInv
<1> QED
  BY <1>1, FilesInvariant, PTL

(***************************************************************************)
(* What is published is whole.                                             *)
(***************************************************************************)

\* A rename publishes what the temporary file of an owner holds: the content.
LEMMA RenamesWhole ==
    ASSUME FilesInv, NEW t \in Threads, NEW held \in ThreadStates,
           Renames(t, held)
    PROVE  /\ held.content \in Contents /\ held.content = thread[t].content
           /\ blob' = [blob EXCEPT ![held.content] = held.content]
<1>1. held.content \in Contents
  BY StatesAreDisjoint DEF Renames, PutSteps, Putting
<1>2. held.content = thread[t].content /\ Owner(t)
  BY DEF Renames, SameFile, Owner, At
<1>3. temp[Name(t)] = held.content
  BY <1>2 DEF FilesInv, TempsAreOwned, Renames
<1> QED
  BY <1>1, <1>2, <1>3 DEF Renames

LEMMA OnlyRenamesChange ==
    ASSUME NEW t \in Threads, NEW held, Steps(t, held)
    PROVE  Renames(t, held) \/ UNCHANGED blob
  BY DEF Steps, Looks, Fills, Removes, Opens

LEMMA ThreadKeepsWhole ==
    ASSUME FilesInv, PublishedIsWhole, NEW t \in Threads, DoesStep(t)
    PROVE  PublishedIsWhole'
<1>1. PICK held \in ThreadStates : Steps(t, held)
  BY DEF DoesStep
<1>2. blob \in [Contents -> Files] /\ damaged' = damaged
  BY <1>1, StepFiles DEF FilesInv, FilesTypeOK
<1>3. Becomes(t, held)
  BY <1>1 DEF Steps
<1>4. \A c \in Contents \ damaged : blob'[c] \in {c, Absent}
  BY <1>1, <1>2, OnlyRenamesChange, RenamesWhole DEF PublishedIsWhole
<1>5. held.step = "answered" =>
         /\ held.content \in Contents /\ held.bytes # Absent
         /\ held.bytes = blob[held.content]
  BY <1>1, StatesAreDisjoint
  DEF Steps, Looks, Fills, Renames, Removes, Opens
<1>6. ASSUME NEW c \in Contents \ damaged, NEW u \in Threads,
             thread'[u].step = "answered", thread'[u].content = c
      PROVE  thread'[u].bytes = c
  <2>1. CASE u = t
    BY <1>3, <1>5, <1>6, <2>1 DEF Becomes, PublishedIsWhole
  <2>2. CASE u # t
    <3>1. thread'[u] = thread[u]
      BY <1>3, <2>2 DEF Becomes
    <3> QED
      BY <1>6, <3>1 DEF PublishedIsWhole, Answers, At
  <2> QED
    BY <2>1, <2>2
<1> QED
  BY <1>2, <1>4, <1>6 DEF PublishedIsWhole, Answers, At

LEMMA EnvironmentKeepsWhole ==
    ASSUME FilesInv, PublishedIsWhole, Environment
    PROVE  PublishedIsWhole'
<1>1. blob \in [Contents -> Files] /\ thread \in [Threads -> ThreadStates]
  BY DEF FilesInv, FilesTypeOK
<1>2. /\ damaged \subseteq damaged'
      /\ \A c \in Contents : \/ blob'[c] = blob[c] \/ blob'[c] = Absent
                             \/ c \in damaged'
      /\ \A t \in Threads : thread'[t] = Resting \/ thread'[t] = thread[t]
  <2>1. CASE \E p \in Processes : Crash(p)
    BY <2>1 DEF Crash
  <2>2. CASE LosePower
    BY <1>1, <2>2 DEF LosePower
  <2>3. CASE Settle
    BY <2>3 DEF Settle
  <2>4. CASE \E c \in Contents : Damage(c)
    BY <1>1, <2>4 DEF Damage
  <2> QED
    BY <2>1, <2>2, <2>3, <2>4 DEF Environment
<1>3. ASSUME NEW c \in Contents \ damaged', NEW u \in Threads,
             thread'[u].step = "answered", thread'[u].content = c
      PROVE  thread'[u].bytes = c
  <2>1. thread'[u] = thread[u]
    BY <1>2, <1>3 DEF Resting
  <2> QED
    BY <1>2, <1>3, <2>1 DEF PublishedIsWhole, Answers, At
<1> QED
  BY <1>2, <1>3 DEF PublishedIsWhole, Answers, At

\* What can be seen at a final path, and what read answers, is the whole
\* content: only put's rename writes there, from a temporary file that its
\* owner filled and synced and that nobody else touched.
THEOREM PublishedStaysWhole == FilesSpec => []PublishedIsWhole
<1>1. FilesInit => PublishedIsWhole
  BY DEF FilesInit, PublishedIsWhole, Answers, At, Resting
<1>2. FilesInv /\ PublishedIsWhole /\ [FilesNext]_files => PublishedIsWhole'
  <2> SUFFICES ASSUME FilesInv, PublishedIsWhole, [FilesNext]_files
               PROVE  PublishedIsWhole'
    OBVIOUS
  <2>1. CASE UNCHANGED files
    BY <2>1 DEF files, PublishedIsWhole, Answers, At
  <2>2. FilesTypeOK
    BY DEF FilesInv
  <2> QED
    BY <2>1, <2>2, FilesCases, ThreadKeepsWhole, EnvironmentKeepsWhole
<1> QED
  BY <1>1, <1>2, FilesInvariant, PTL DEF FilesSpec

\* put answers success only at a moment when the whole content is at its path:
\* it was found there and hashed, or has just been renamed from a full file.
THEOREM SuccessIsWhole == FilesSpec => PutSucceedsOnlyWhole
<1>1. FilesInv /\ [FilesNext]_files
          => [\A t \in Threads : (~At(t, "stored") /\ At(t, "stored")')
                 => blob'[thread[t].content] = thread[t].content]_files
  <2> SUFFICES ASSUME FilesInv, [FilesNext]_files, NEW t \in Threads,
                      ~At(t, "stored"), At(t, "stored")'
               PROVE  blob'[thread[t].content] = thread[t].content
    OBVIOUS
  <2>1. thread'[t] # thread[t] /\ thread'[t] # Resting
    BY DEF At, Resting
  <2>2. ~Environment /\ ~UNCHANGED files
    BY <2>1 DEF Environment, Crash, LosePower, Settle, Damage, files
  <2>3. PICK u \in Threads, held \in ThreadStates : Steps(u, held)
    BY <2>2, FilesCases DEF FilesInv, DoesStep
  <2>4. u = t /\ held = thread'[t] /\ held.step = "stored"
    BY <2>1, <2>3 DEF Steps, Becomes, At
  <2>5. CASE Looks(u, held)
    BY <2>4, <2>5 DEF Looks, SameFile
  <2>6. CASE Renames(u, held)
    BY <2>4, <2>6, RenamesWhole DEF FilesInv, FilesTypeOK
  <2> QED
    BY <2>3, <2>4, <2>5, <2>6 DEF Steps, Fills, Removes, Opens
<1> QED
  BY <1>1, FilesInvariant, PTL DEF FilesSpec, PutSucceedsOnlyWhole

\* No step of a thread removes a file at a final path or replaces it by
\* anything but the whole content; put reuses what it finds or reports it.
THEOREM PublishedStays == FilesSpec => PublishedIsForever
<1>1. FilesInv /\ [FilesNext]_files
          => [\A c \in Contents : (blob[c] # Absent /\ blob'[c] # blob[c])
                 => \/ blob'[c] = Broken /\ c \in damaged' /\ UNCHANGED thread
                    \/ blob'[c] = Absent /\ c \in volatile \ volatile'
                    \/ blob'[c] = c /\ \E t \in Threads :
                           At(t, "synced") /\ thread[t].content = c]_files
  <2> SUFFICES ASSUME FilesInv, [FilesNext]_files, NEW c \in Contents,
                      blob[c] # Absent, blob'[c] # blob[c]
               PROVE  \/ blob'[c] = Broken /\ c \in damaged' /\ UNCHANGED thread
                      \/ blob'[c] = Absent /\ c \in volatile \ volatile'
                      \/ blob'[c] = c /\ \E t \in Threads :
                             At(t, "synced") /\ thread[t].content = c
    OBVIOUS
  <2>1. blob \in [Contents -> Files]
    BY DEF FilesInv, FilesTypeOK
  <2>2. CASE \E t \in Threads : DoesStep(t)
    <3>1. PICK t \in Threads, held \in ThreadStates : Steps(t, held)
      BY <2>2 DEF DoesStep
    <3>2. Renames(t, held)
      BY <3>1, OnlyRenamesChange
    <3> QED
      BY <2>1, <3>2, RenamesWhole DEF Renames
  <2>3. CASE LosePower
    BY <2>1, <2>3 DEF LosePower
  <2>4. CASE \E d \in Contents : Damage(d)
    BY <2>1, <2>4 DEF Damage
  <2>5. ~UNCHANGED files /\ ~Settle /\ ~\E p \in Processes : Crash(p)
    BY DEF files, Settle, Crash
  <2> QED
    BY <2>2, <2>3, <2>4, <2>5, FilesCases DEF FilesInv, Environment
<1> QED
  BY <1>1, FilesInvariant, PTL DEF FilesSpec, PublishedIsForever

(***************************************************************************)
(* The metadata's transaction                                              *)
(***************************************************************************)
Events == [op : Operations, key : ArtifactKeys, version : Nat, source : Nat]

MetadataOK ==
    /\ versions \in [ArtifactKeys -> Seq(Contents)]
    /\ sources \in Seq(Sources)
    /\ \A u \in uses : /\ u.key \in ArtifactKeys /\ u.version \in Versions(u.key)
                       /\ u.source \in DOMAIN sources
    /\ log \in Seq(Events)
    /\ \A i \in DOMAIN log : /\ log[i].version \in Versions(log[i].key)
                              /\ log[i].source \in DOMAIN sources

IngestInv == FilesInv /\ MetadataOK

LEMMA VersionsFacts ==
    ASSUME MetadataOK, NEW k \in ArtifactKeys
    PROVE  /\ versions[k] \in Seq(Contents) /\ Len(versions[k]) \in Nat
           /\ Versions(k) = 1..Len(versions[k])
           /\ \A i \in Versions(k) : versions[k][i] \in Contents
<1>1. versions[k] \in Seq(Contents)
  BY DEF MetadataOK
<1> QED
  BY <1>1, LenProperties, ElementOfSeq DEF Versions

\* A step of ingestion: of the store alone, or the metadata's transaction.
LEMMA IngestCases ==
    ASSUME MetadataOK, [IngestNext]_ingestVars
    PROVE  \/ [FilesNext]_files /\ UNCHANGED metadata
           \/ \E t \in Threads : CommitIngest(t)
<1>1. ASSUME NEW t \in Threads, NEW k \in ArtifactKeys, NEW s \in Sources,
             NEW c \in Contents, BeginIngest(t, k, s, c)
      PROVE  FilesNext /\ UNCHANGED metadata
  <2>1. [key |-> k, source |-> s] \in Purposes
    BY IngestAssumption
  <2> QED
    BY <1>1, <2>1 DEF BeginIngest, FilesNext
<1>2. ASSUME NEW t \in Threads, NEW k \in ArtifactKeys, BeginReadVersion(t, k)
      PROVE  FilesNext /\ UNCHANGED metadata
  <2>1. PICK i \in Versions(k) : BeginRead(t, versions[k][i])
    BY <1>2 DEF BeginReadVersion
  <2>2. PICK c \in Contents : BeginRead(t, c)
    BY <2>1, VersionsFacts
  <2> QED
    BY <1>2, <2>2 DEF BeginReadVersion, FilesNext
<1> QED
  BY <1>1, <1>2
  DEF IngestNext, StoreStep, AbortIngest, FilesNext, ingestVars, metadata

LEMMA CommitEndsPut ==
    ASSUME NEW t \in Threads, CommitIngest(t)
    PROVE  FilesNext
  BY DEF CommitIngest, Ready, EndPut, FilesNext

\* What a committed ingestion of content c into the artifact k adds: an event
\* for version n from the source in row, and the association of the two.
Commits(k, c, n, row, op) ==
    /\ log' = Append(log, [op |-> op, key |-> k, version |-> n, source |-> row])
    /\ uses' = uses \cup {[key |-> k, version |-> n, source |-> row]}
    /\ sources' \in Seq(Sources) /\ row \in DOMAIN sources'
    /\ DOMAIN sources \subseteq DOMAIN sources'
    /\ \/ /\ op = "artifact.duplicate" /\ n \in Versions(k)
          /\ versions' = versions
       \/ /\ op \in {"artifact.ingest", "artifact.version"}
          /\ op = "artifact.ingest" <=> n = 1
          /\ n = Len(versions[k]) + 1
          /\ \A i \in Versions(k) : versions[k][i] # c
          /\ versions' = [versions EXCEPT ![k] = Append(versions[k], c)]

LEMMA SourceFacts ==
    ASSUME sources \in Seq(Sources), NEW s \in Sources, AddSource(s)
    PROVE  /\ sources' \in Seq(Sources)
           /\ DOMAIN sources \subseteq DOMAIN sources'
           /\ SourceRow(s) \in DOMAIN sources'
<1>1. Len(sources) \in Nat /\ DOMAIN sources = 1..Len(sources)
  BY LenProperties
<1>2. CASE IsNewSource(s)
  <2>1. sources' = Append(sources, s)
    BY <1>2 DEF AddSource
  <2>2. sources' \in Seq(Sources) /\ Len(sources') = Len(sources) + 1
    BY <2>1, AppendProperties
  <2>3. DOMAIN sources' = 1..Len(sources) + 1
    BY <2>2, LenProperties
  <2>4. SourceRow(s) = Len(sources) + 1
    BY <1>2 DEF SourceRow
  <2> QED
    BY <1>1, <2>2, <2>3, <2>4
<1>3. CASE ~IsNewSource(s)
  <2>1. SourceRows(s) # {}
    BY <1>3 DEF IsNewSource
  <2>2. SourceRow(s) \in SourceRows(s)
    BY <1>3, <2>1 DEF SourceRow
  <2> QED
    BY <1>3, <2>2 DEF AddSource, SourceRows
<1> QED
  BY <1>2, <1>3

LEMMA CommitFacts ==
    ASSUME FilesTypeOK, MetadataOK, NEW t \in Threads, CommitIngest(t)
    PROVE  \E k, c, n, row, op :
              /\ k \in ArtifactKeys /\ c \in Contents /\ c = thread[t].content
              /\ At(t, "stored") /\ Commits(k, c, n, row, op)
<1>1. thread[t] \in Putting
  BY StatesAreDisjoint DEF FilesTypeOK, CommitIngest, Ready, At, PutSteps
<1>2. PICK k, s, c : /\ k = thread[t].purpose.key
                     /\ s = thread[t].purpose.source
                     /\ c = thread[t].content
  OBVIOUS
<1>3. k \in ArtifactKeys /\ s \in Sources /\ c \in Contents
  BY <1>1, <1>2, IngestAssumption DEF Putting
<1>4. /\ At(t, "stored") /\ AddSource(s)
      /\ CommitDuplicate(k, s, c) \/ CommitVersion(k, s, c)
  BY <1>2 DEF CommitIngest, Ready
<1>5. PICK row : row = SourceRow(s)
  OBVIOUS
<1>6. /\ sources' \in Seq(Sources) /\ DOMAIN sources \subseteq DOMAIN sources'
      /\ row \in DOMAIN sources'
  BY <1>3, <1>4, <1>5, SourceFacts DEF MetadataOK
<1>7. CASE CommitDuplicate(k, s, c)
  <2>1. PICK n \in Stored(k, c) :
           /\ UNCHANGED versions /\ Associate(k, n, row)
           /\ log' = Append(log, Event("artifact.duplicate", k, n, row))
    BY <1>5, <1>7 DEF CommitDuplicate
  <2>2. Commits(k, c, n, row, "artifact.duplicate")
    BY <1>6, <2>1 DEF Commits, Stored, Associate, Event
  <2> QED
    BY <1>2, <1>3, <1>4, <2>2
<1>8. CASE CommitVersion(k, s, c)
  <2>1. PICK n, op : /\ n = NextVersion(k)
                     /\ op = IF versions[k] = <<>> THEN "artifact.ingest"
                                                   ELSE "artifact.version"
    OBVIOUS
  <2>2. /\ Stored(k, c) = {}
        /\ versions' = [versions EXCEPT ![k] = Append(versions[k], c)]
        /\ Associate(k, n, row) /\ log' = Append(log, Event(op, k, n, row))
    BY <1>5, <1>8, <2>1 DEF CommitVersion
  <2>3. n = Len(versions[k]) + 1
    BY <2>1 DEF NextVersion
  <2>4. op = "artifact.ingest" <=> n = 1
    BY <1>3, <2>1, <2>3, VersionsFacts, EmptySeq
  <2>5. \A i \in Versions(k) : versions[k][i] # c
    BY <2>2 DEF Stored
  <2>6. Commits(k, c, n, row, op)
    BY <1>6, <2>1, <2>2, <2>3, <2>4, <2>5 DEF Commits, Associate, Event
  <2> QED
    BY <1>2, <1>3, <1>4, <2>6
<1> QED
  BY <1>4, <1>7, <1>8

NewEvent(op, k, n, row) == [op |-> op, key |-> k, version |-> n, source |-> row]

\* What a commit does to versions and to the log, element by element.
LEMMA CommitVersions ==
    ASSUME MetadataOK, NEW k \in ArtifactKeys, NEW c \in Contents,
           NEW n, NEW row, NEW op, Commits(k, c, n, row, op)
    PROVE  /\ versions' \in [ArtifactKeys -> Seq(Contents)]
           /\ \A j \in ArtifactKeys : /\ Versions(j) \subseteq DOMAIN versions'[j]
                                      /\ \A i \in Versions(j) :
                                            versions'[j][i] = versions[j][i]
           /\ n \in DOMAIN versions'[k] /\ n \in Nat
           /\ op # "artifact.duplicate" =>
                 /\ DOMAIN versions'[k] = Versions(k) \cup {n}
                 /\ versions'[k][n] = c
                 /\ \A i \in Versions(k) : i < n
           /\ \A j \in ArtifactKeys \ {k} : versions'[j] = versions[j]
<1>1. /\ versions \in [ArtifactKeys -> Seq(Contents)]
      /\ versions[k] \in Seq(Contents) /\ Len(versions[k]) \in Nat
      /\ Versions(k) = 1..Len(versions[k])
  BY VersionsFacts DEF MetadataOK
<1>2. CASE op = "artifact.duplicate"
  <2>1. versions' = versions /\ n \in Versions(k)
    BY <1>2 DEF Commits
  <2> QED
    BY <1>1, <1>2, <2>1 DEF Versions
<1>3. CASE op # "artifact.duplicate"
  <2>1. PICK longer : longer = Append(versions[k], c)
    OBVIOUS
  <2>2. /\ longer \in Seq(Contents) /\ Len(longer) = Len(versions[k]) + 1
        /\ longer[Len(versions[k]) + 1] = c
        /\ \A i \in 1..Len(versions[k]) : longer[i] = versions[k][i]
    BY <1>1, <2>1, AppendProperties
  <2>3. /\ n = Len(versions[k]) + 1
        /\ versions' = [versions EXCEPT ![k] = longer]
    BY <1>3, <2>1 DEF Commits
  <2>4. DOMAIN longer = 1..(Len(versions[k]) + 1)
    BY <2>2, LenProperties
  <2>5. 1..(Len(versions[k]) + 1) = 1..Len(versions[k]) \cup {n}
        /\ \A i \in 1..Len(versions[k]) : i < n
    BY <1>1, <2>3
  <2> QED
    BY <1>1, <2>2, <2>3, <2>4, <2>5 DEF Versions
<1> QED
  BY <1>2, <1>3

LEMMA CommitLog ==
    ASSUME MetadataOK, NEW k \in ArtifactKeys, NEW c \in Contents,
           NEW n, NEW row, NEW op, Commits(k, c, n, row, op)
    PROVE  /\ op \in Operations /\ row \in Nat
           /\ log' \in Seq(Events) /\ Len(log) \in Nat
           /\ DOMAIN log = 1..Len(log)
           /\ DOMAIN log' = DOMAIN log \cup {Len(log) + 1}
           /\ \A i \in DOMAIN log : log'[i] = log[i] /\ log[i] \in Events
           /\ log'[Len(log) + 1] = NewEvent(op, k, n, row)
<1>1. log \in Seq(Events) /\ Len(log) \in Nat /\ DOMAIN log = 1..Len(log)
  BY LenProperties DEF MetadataOK
<1>2. op \in Operations
  BY DEF Commits, Operations
<1>3. row \in Nat
  <2>1. Len(sources') \in Nat /\ DOMAIN sources' = 1..Len(sources')
    BY LenProperties DEF Commits
  <2> QED
    BY <2>1 DEF Commits
<1>4. NewEvent(op, k, n, row) \in Events
  BY <1>2, <1>3, CommitVersions DEF NewEvent, Events
<1>5. log' = Append(log, NewEvent(op, k, n, row))
  BY DEF Commits, NewEvent
<1>6. /\ log' \in Seq(Events) /\ Len(log') = Len(log) + 1
      /\ log'[Len(log) + 1] = NewEvent(op, k, n, row)
      /\ \A i \in 1..Len(log) : log'[i] = log[i]
  BY <1>1, <1>4, <1>5, AppendProperties
<1>7. DOMAIN log' = DOMAIN log \cup {Len(log) + 1}
  <2>1. DOMAIN log' = 1..(Len(log) + 1)
    BY <1>6, LenProperties
  <2>2. 1..(Len(log) + 1) = 1..Len(log) \cup {Len(log) + 1}
    BY <1>1
  <2> QED
    BY <1>1, <2>1, <2>2
<1>8. \A i \in DOMAIN log : log[i] \in Events
  BY <1>1, ElementOfSeq
<1> QED
  BY <1>1, <1>2, <1>3, <1>6, <1>7, <1>8

LEMMA CommitMetadata ==
    ASSUME MetadataOK, NEW k \in ArtifactKeys, NEW c \in Contents,
           NEW n, NEW row, NEW op, Commits(k, c, n, row, op)
    PROVE  MetadataOK'
<1>1. /\ versions' \in [ArtifactKeys -> Seq(Contents)]
      /\ \A j \in ArtifactKeys : Versions(j) \subseteq DOMAIN versions'[j]
      /\ n \in DOMAIN versions'[k]
  BY CommitVersions
<1>2. /\ sources' \in Seq(Sources) /\ row \in DOMAIN sources'
      /\ DOMAIN sources \subseteq DOMAIN sources'
      /\ uses' = uses \cup {[key |-> k, version |-> n, source |-> row]}
  BY DEF Commits
<1>3. ASSUME NEW u \in uses'
      PROVE  /\ u.key \in ArtifactKeys /\ u.version \in DOMAIN versions'[u.key]
             /\ u.source \in DOMAIN sources'
  BY <1>1, <1>2, <1>3 DEF MetadataOK
<1>4. ASSUME NEW i \in DOMAIN log'
      PROVE  /\ log'[i].version \in DOMAIN versions'[log'[i].key]
             /\ log'[i].source \in DOMAIN sources'
  <2>1. CASE i \in DOMAIN log
    <3>1. log'[i] = log[i] /\ log[i].key \in ArtifactKeys
      BY <2>1, CommitLog DEF Events
    <3> QED
      BY <1>1, <1>2, <2>1, <3>1 DEF MetadataOK
  <2>2. CASE i \notin DOMAIN log
    <3>1. i = Len(log) + 1
      BY <1>4, <2>2, CommitLog
    <3>2. log'[i] = NewEvent(op, k, n, row)
      BY <3>1, CommitLog
    <3>3. log'[i].version = n /\ log'[i].key = k /\ log'[i].source = row
      BY <3>2 DEF NewEvent
    <3> QED
      BY <1>1, <1>2, <3>3
  <2> QED
    BY <2>1, <2>2
<1> QED
  BY <1>1, <1>2, <1>3, <1>4, CommitLog DEF MetadataOK, Versions

LEMMA IngestStep == IngestInv /\ [IngestNext]_ingestVars => IngestInv'
<1> SUFFICES ASSUME IngestInv, [IngestNext]_ingestVars PROVE IngestInv'
  OBVIOUS
<1>1. FilesInv /\ FilesTypeOK /\ MetadataOK
  BY DEF IngestInv, FilesInv
<1>2. CASE [FilesNext]_files /\ UNCHANGED metadata
  <2>1. FilesInv'
    BY <1>1, <1>2, FilesStep DEF FilesInv
  <2>2. MetadataOK'
    BY <1>1, <1>2 DEF MetadataOK, metadata, Versions
  <2> QED
    BY <2>1, <2>2 DEF IngestInv
<1>3. CASE \E t \in Threads : CommitIngest(t)
  <2>1. FilesInv'
    BY <1>1, <1>3, CommitEndsPut, FilesStep DEF FilesInv
  <2>2. MetadataOK'
    BY <1>1, <1>3, CommitFacts, CommitMetadata
  <2> QED
    BY <2>1, <2>2 DEF IngestInv
<1> QED
  BY <1>1, <1>2, <1>3, IngestCases

LEMMA IngestStart == IngestInit => IngestInv
<1> SUFFICES ASSUME IngestInit PROVE IngestInv
  OBVIOUS
<1>1. FilesInit
  BY DEF IngestInit
<1>2. FilesInv
  BY <1>1, FilesStart
<1>3. DOMAIN log = {} /\ log \in Seq(Events) /\ sources \in Seq(Sources)
  BY EmptySeq DEF IngestInit
<1>4. versions \in [ArtifactKeys -> Seq(Contents)]
  BY EmptySeq DEF IngestInit
<1> QED
  BY <1>2, <1>3, <1>4 DEF IngestInv, MetadataOK, IngestInit

LEMMA IngestInvariant == IngestSpec => []IngestInv
  BY IngestStart, IngestStep, PTL DEF IngestSpec

\* The records of the metadata refer to each other: uses and events name
\* versions and sources that exist, which one transaction inserts together.
THEOREM IngestTypeCorrect == IngestSpec => []IngestTypeOK
<1>1. IngestInv => IngestTypeOK
  BY DEF IngestInv, FilesInv, MetadataOK, IngestTypeOK, Events
<1> QED
  BY <1>1, IngestInvariant, PTL

\* Ingestion uses the store through put and read alone, so what is proved of
\* the store holds under it: the transaction is a step of no file.
THEOREM IngestionUsesStore == IngestSpec => FilesSpec
<1>1. IngestInit => FilesInit
  BY DEF IngestInit
<1>2. IngestInv /\ [IngestNext]_ingestVars => [FilesNext]_files
  BY IngestCases, CommitEndsPut DEF IngestInv
<1> QED
  BY <1>1, <1>2, IngestInvariant, PTL DEF IngestSpec, FilesSpec

(***************************************************************************)
(* The log tells the history.                                              *)
(***************************************************************************)
LEMMA SourcesStep ==
    ASSUME IngestInv, SourcesAreDeliveries, [IngestNext]_ingestVars
    PROVE  SourcesAreDeliveries'
<1>1. FilesTypeOK /\ MetadataOK
  BY DEF IngestInv, FilesInv
<1>2. CASE UNCHANGED metadata
  BY <1>2 DEF metadata, SourcesAreDeliveries
<1>3. CASE \E t \in Threads : CommitIngest(t)
  <2>1. PICK k, c, n, row, op :
           k \in ArtifactKeys /\ c \in Contents /\ Commits(k, c, n, row, op)
    BY <1>1, <1>3, CommitFacts
  <2>2. PICK use, event : /\ use = [key |-> k, version |-> n, source |-> row]
                          /\ event = NewEvent(op, k, n, row)
    OBVIOUS
  <2>3. uses' = uses \cup {use}
    BY <2>1, <2>2 DEF Commits
  <2>4. /\ DOMAIN log' = DOMAIN log \cup {Len(log) + 1}
        /\ \A i \in DOMAIN log : log'[i] = log[i]
        /\ log'[Len(log) + 1] = event
    BY <1>1, <2>1, <2>2, CommitLog
  <2>5. /\ event.key = k /\ event.version = n /\ event.source = row
    BY <2>2 DEF NewEvent
  <2>6. PICK last : last = Len(log) + 1
    OBVIOUS
  <2>7. uses' = {[key |-> log'[i].key, version |-> log'[i].version,
                  source |-> log'[i].source] : i \in DOMAIN log'}
    BY <2>2, <2>3, <2>4, <2>5, <2>6 DEF SourcesAreDeliveries
  <2> QED
    BY <2>7 DEF SourcesAreDeliveries
<1> QED
  BY <1>1, <1>2, <1>3, IngestCases

\* Where a version came from is on record: the sources of a version are those
\* of the ingestions that delivered it, duplicates included, because the
\* association and the audit event are written in one transaction.
THEOREM SourcesStayDeliveries == IngestSpec => []SourcesAreDeliveries
<1>1. IngestInit => SourcesAreDeliveries
  BY DEF IngestInit, SourcesAreDeliveries
<1>2. IngestInv /\ SourcesAreDeliveries /\ [IngestNext]_ingestVars
          => SourcesAreDeliveries'
  BY SourcesStep
<1> QED
  BY <1>1, <1>2, IngestInvariant, PTL DEF IngestSpec

Stores == {"artifact.ingest", "artifact.version"}

Of(lg, k, ops) == {i \in DOMAIN lg : lg[i].key = k /\ lg[i].op \in ops}

\* LogTellsVersions for one artifact: the log lg tells the versions numbers.
Tells(lg, numbers, k) ==
    /\ \A n \in numbers : \E i \in Of(lg, k, Stores) :
          lg[i].version = n /\ (lg[i].op = "artifact.ingest" <=> n = 1)
    /\ \A i, j \in Of(lg, k, Stores) : i < j => lg[i].version < lg[j].version
    /\ \A i \in Of(lg, k, {"artifact.duplicate"}) : \E j \in Of(lg, k, Stores) :
          j < i /\ lg[j].version = lg[i].version

\* One more event in the log, for another artifact, a duplicate of a version
\* that is there, or a version above those that are.
LEMMA TellsMore ==
    ASSUME NEW lg, NEW longer, NEW numbers, NEW more, NEW k, NEW last \in Nat,
           numbers \subseteq Nat, DOMAIN longer = DOMAIN lg \cup {last},
           \A i \in DOMAIN lg : i \in Nat /\ i < last /\ longer[i] = lg[i],
           \A i \in DOMAIN lg : lg[i].key = k => lg[i].version \in numbers,
           Tells(lg, numbers, k),
           \/ longer[last].key # k /\ more = numbers
           \/ /\ longer[last].key = k /\ longer[last].op = "artifact.duplicate"
              /\ longer[last].version \in numbers /\ more = numbers
           \/ /\ longer[last].key = k /\ longer[last].op \in Stores
              /\ longer[last].version \in Nat
              /\ more = numbers \cup {longer[last].version}
              /\ \A n \in numbers : n < longer[last].version
              /\ longer[last].op = "artifact.ingest" <=> longer[last].version = 1
    PROVE  Tells(longer, more, k)
<1>1. ASSUME NEW ops, NEW i \in Of(lg, k, ops)
      PROVE  /\ i \in Of(longer, k, ops) /\ longer[i] = lg[i]
             /\ i \in Nat /\ i < last /\ lg[i].version \in numbers
  BY DEF Of
<1>2. ASSUME NEW ops, NEW i \in Of(longer, k, ops)
      PROVE  \/ i \in Of(lg, k, ops)
             \/ i = last /\ longer[last].key = k /\ longer[last].op \in ops
  BY DEF Of
<1>3. ASSUME NEW n \in more
      PROVE  \E i \in Of(longer, k, Stores) :
                 /\ longer[i].version = n
                 /\ longer[i].op = "artifact.ingest" <=> n = 1
  <2>1. CASE n \in numbers
    <3>1. PICK i \in Of(lg, k, Stores) :
             lg[i].version = n /\ (lg[i].op = "artifact.ingest" <=> n = 1)
      BY <2>1 DEF Tells
    <3> QED
      BY <1>1, <3>1
  <2>2. CASE n \notin numbers
    <3>1. /\ longer[last].key = k /\ longer[last].op \in Stores
          /\ longer[last].version = n
          /\ longer[last].op = "artifact.ingest" <=> n = 1
      BY <1>3, <2>2
    <3>2. last \in Of(longer, k, Stores)
      BY <3>1 DEF Of
    <3> QED
      BY <3>1, <3>2
  <2> QED
    BY <2>1, <2>2
<1>4. ASSUME NEW i \in Of(longer, k, Stores), NEW j \in Of(longer, k, Stores), i < j
      PROVE  longer[i].version < longer[j].version
  <2>1. CASE j \in Of(lg, k, Stores)
    <3>1. i \in Of(lg, k, Stores)
      BY <1>1, <1>2, <1>4, <2>1
    <3> QED
      BY <1>1, <1>4, <2>1, <3>1 DEF Tells
  <2>2. CASE j = last /\ longer[last].op \in Stores /\ longer[last].key = k
    <3> i # last
      BY <1>4, <2>2
    <3>1. i \in Of(lg, k, Stores)
      BY <1>2
    <3>2. \A n \in numbers : n < longer[last].version
      BY <2>2 DEF Stores
    <3> QED
      BY <1>1, <2>2, <3>1, <3>2
  <2> QED
    BY <1>2, <2>1, <2>2
<1>5. ASSUME NEW i \in Of(longer, k, {"artifact.duplicate"})
      PROVE  \E j \in Of(longer, k, Stores) :
                 j < i /\ longer[j].version = longer[i].version
  <2>1. CASE i \in Of(lg, k, {"artifact.duplicate"})
    <3>1. PICK j \in Of(lg, k, Stores) : j < i /\ lg[j].version = lg[i].version
      BY <2>1 DEF Tells
    <3> QED
      BY <1>1, <2>1, <3>1
  <2>2. CASE i = last /\ longer[last].op = "artifact.duplicate" /\ longer[last].key = k
    <3>1. longer[last].version \in numbers
      BY <2>2 DEF Stores
    <3>2. PICK j \in Of(lg, k, Stores) : lg[j].version = longer[last].version
      BY <3>1 DEF Tells
    <3> QED
      BY <1>1, <2>2, <3>2
  <2> QED
    BY <1>2, <2>1, <2>2
<1> QED
  BY <1>3, <1>4, <1>5 DEF Tells

LEMMA TellsAll ==
    LogTellsVersions <=> \A k \in ArtifactKeys : Tells(log, Versions(k), k)
  BY DEF LogTellsVersions, Tells, EventsOf, Of, Stores

LEMMA TellsAllNext ==
    LogTellsVersions'
        <=> \A k \in ArtifactKeys : Tells(log', DOMAIN versions'[k], k)
  BY DEF LogTellsVersions, Tells, EventsOf, Of, Stores, Versions

LEMMA LogStep ==
    ASSUME IngestInv, LogTellsVersions, [IngestNext]_ingestVars
    PROVE  LogTellsVersions'
<1>1. FilesTypeOK /\ MetadataOK
  BY DEF IngestInv, FilesInv
<1>2. CASE UNCHANGED metadata
  BY <1>2, TellsAll, TellsAllNext DEF metadata, Versions
<1>3. CASE \E t \in Threads : CommitIngest(t)
  <2>1. PICK k, c, n, row, op :
           k \in ArtifactKeys /\ c \in Contents /\ Commits(k, c, n, row, op)
    BY <1>1, <1>3, CommitFacts
  <2>2. PICK last, event : last = Len(log) + 1 /\ event = NewEvent(op, k, n, row)
    OBVIOUS
  <2>3. /\ last \in Nat /\ DOMAIN log' = DOMAIN log \cup {last}
        /\ \A i \in DOMAIN log : i \in Nat /\ i < last /\ log'[i] = log[i]
        /\ log'[last] = event
    <3>1. /\ Len(log) \in Nat /\ DOMAIN log = 1..Len(log)
          /\ DOMAIN log' = DOMAIN log \cup {Len(log) + 1}
          /\ \A i \in DOMAIN log : log'[i] = log[i]
          /\ log'[Len(log) + 1] = event
      BY <1>1, <2>1, <2>2, CommitLog
    <3>2. last \in Nat /\ \A i \in 1..Len(log) : i \in Nat /\ i < last
      BY <2>2, <3>1
    <3> QED
      BY <2>2, <3>1, <3>2
  <2>4. event.key = k /\ event.version = n /\ event.op = op
    BY <2>2 DEF NewEvent
  <2>5. ASSUME NEW j \in ArtifactKeys
        PROVE  Tells(log', DOMAIN versions'[j], j)
    <3>1. PICK numbers, more : numbers = Versions(j) /\ more = DOMAIN versions'[j]
      OBVIOUS
    <3>2. numbers \subseteq Nat /\ Tells(log, numbers, j)
      BY <1>1, <3>1, VersionsFacts, TellsAll
    <3>3. \A i \in DOMAIN log : log[i].key = j => log[i].version \in numbers
      BY <1>1, <3>1 DEF MetadataOK
    <3>4. CASE j # k
      <4>1. more = numbers
        BY <1>1, <2>1, <3>1, <3>4, CommitVersions DEF Versions
      <4> QED
        BY <2>3, <2>4, <3>1, <3>2, <3>3, <3>4, <4>1, TellsMore
    <3>5. CASE j = k /\ op = "artifact.duplicate"
      <4>1. more = numbers /\ n \in numbers
        BY <2>1, <3>1, <3>5 DEF Commits, Versions
      <4> QED
        BY <2>3, <2>4, <3>1, <3>2, <3>3, <3>5, <4>1, TellsMore
    <3>6. CASE j = k /\ op # "artifact.duplicate"
      <4>1. /\ more = numbers \cup {n} /\ n \in Nat /\ \A i \in numbers : i < n
        BY <1>1, <2>1, <3>1, <3>6, CommitVersions
      <4>2. op \in Stores /\ (op = "artifact.ingest" <=> n = 1)
        BY <2>1, <3>6 DEF Commits, Stores
      <4> QED
        BY <2>3, <2>4, <3>1, <3>2, <3>3, <3>6, <4>1, <4>2, TellsMore
    <3> QED
      BY <3>4, <3>5, <3>6
  <2> QED
    BY <2>5, TellsAllNext
<1> QED
  BY <1>1, <1>2, <1>3, IngestCases

\* The audit log tells the history of every artifact: each version by one
\* event, in their order, a duplicate after the version it names, because a
\* version number is drawn in the transaction that logs it.
THEOREM LogStaysTrue == IngestSpec => []LogTellsVersions
<1>1. IngestInit => LogTellsVersions
  BY DEF IngestInit, LogTellsVersions, EventsOf, Versions
<1>2. IngestInv /\ LogTellsVersions /\ [IngestNext]_ingestVars
          => LogTellsVersions'
  BY LogStep
<1> QED
  BY <1>1, <1>2, IngestInvariant, PTL DEF IngestSpec

(***************************************************************************)
(* Ingestion implements the archive, where the disk keeps what it was told *)
(* to keep: a rename that returned survives, and nothing is damaged.       *)
(***************************************************************************)
DiskKeeps == volatile = {} /\ damaged = {}

Readable ==
    \A k \in ArtifactKeys : \A i \in Versions(k) :
        blob[versions[k][i]] = versions[k][i]

LEMMA ReadableIsHistory ==
    MetadataOK /\ Readable
        => [k \in ArtifactKeys |-> [i \in Versions(k) |-> blob[versions[k][i]]]]
             = versions
<1> SUFFICES ASSUME MetadataOK, Readable
             PROVE  [k \in ArtifactKeys |->
                        [i \in Versions(k) |-> blob[versions[k][i]]]] = versions
  OBVIOUS
<1>1. ASSUME NEW k \in ArtifactKeys
      PROVE  [i \in Versions(k) |-> blob[versions[k][i]]] = versions[k]
  <2>1. PICK s : s = versions[k]
    OBVIOUS
  <2>2. s \in Seq(Contents) /\ Versions(k) = DOMAIN s
    BY <2>1, VersionsFacts DEF Versions
  <2>3. s = [i \in DOMAIN s |-> s[i]]
    BY <2>2
  <2>4. \A i \in Versions(k) : blob[versions[k][i]] = s[i]
    BY <2>1 DEF Readable
  <2> QED
    BY <2>1, <2>2, <2>3, <2>4
<1> QED
  BY <1>1 DEF MetadataOK

LEMMA ReadableIsHistoryNext ==
    (MetadataOK /\ Readable)'
        => ([k \in ArtifactKeys |-> [i \in Versions(k) |-> blob[versions[k][i]]]]
              = versions)'
  BY ReadableIsHistory, PTL

LEMMA DiskKeepsStep ==
    ASSUME DirectorySynced = TRUE, MaxDamage = 0, FilesInv, DiskKeeps,
           [FilesNext]_files
    PROVE  /\ DiskKeeps'
           /\ \A c \in Contents : blob[c] = c => blob'[c] = c
<1>1. blob \in [Contents -> Files] /\ FilesTypeOK
  BY DEF FilesInv, FilesTypeOK
<1>2. CASE \E t \in Threads : DoesStep(t)
  <2>1. PICK t \in Threads, held \in ThreadStates : Steps(t, held)
    BY <1>2 DEF DoesStep
  <2>2. CASE Renames(t, held)
    <3>1. volatile' = volatile /\ damaged' = damaged
      BY <2>2 DEF Renames
    <3> QED
      BY <1>1, <2>2, <3>1, RenamesWhole DEF DiskKeeps
  <2>3. CASE ~Renames(t, held)
    <3>1. UNCHANGED <<blob, volatile, damaged>>
      BY <2>1, <2>3 DEF Steps, Looks, Fills, Removes, Opens
    <3> QED
      BY <3>1 DEF DiskKeeps
  <2> QED
    BY <2>2, <2>3
<1>3. CASE LosePower
  <2>1. PICK lost \in SUBSET volatile :
           blob' = [c \in Contents |-> IF c \in lost THEN Absent ELSE blob[c]]
    BY <1>3 DEF LosePower
  <2>2. lost = {}
    BY <2>1 DEF DiskKeeps
  <2> QED
    BY <1>3, <2>1, <2>2 DEF LosePower, DiskKeeps
<1>4. ~\E c \in Contents : Damage(c)
  BY FS_EmptySet DEF Damage, DiskKeeps
<1>5. CASE Settle \/ \E p \in Processes : Crash(p)
  BY <1>5 DEF Settle, Crash, DiskKeeps
<1>6. CASE UNCHANGED files
  BY <1>6 DEF files, DiskKeeps
<1> QED
  BY <1>1, <1>2, <1>3, <1>4, <1>5, <1>6, FilesCases DEF Environment

ArchiveInv == IngestInv /\ PublishedIsWhole /\ DiskKeeps /\ Readable

LEMMA ReadableStep ==
    ASSUME DirectorySynced = TRUE, MaxDamage = 0, ArchiveInv,
           [IngestNext]_ingestVars
    PROVE  DiskKeeps' /\ Readable'
<1>1. FilesInv /\ FilesTypeOK /\ MetadataOK /\ DiskKeeps /\ Readable
  BY DEF ArchiveInv, IngestInv, FilesInv
<1>2. CASE [FilesNext]_files /\ UNCHANGED metadata
  <2>1. DiskKeeps' /\ \A c \in Contents : blob[c] = c => blob'[c] = c
    BY <1>1, <1>2, DiskKeepsStep
  <2>2. versions' = versions
    BY <1>2 DEF metadata
  <2>3. \A k \in ArtifactKeys : \A i \in Versions(k) : versions[k][i] \in Contents
    BY <1>1, VersionsFacts
  <2> QED
    BY <1>1, <2>1, <2>2, <2>3 DEF Readable, Versions
<1>3. CASE \E t \in Threads : CommitIngest(t)
  <2>1. PICK t, k, c, n, row, op :
           /\ t \in Threads /\ k \in ArtifactKeys /\ c \in Contents
           /\ CommitIngest(t) /\ c = thread[t].content /\ At(t, "stored")
           /\ Commits(k, c, n, row, op)
    BY <1>1, <1>3, CommitFacts
  <2>2. blob[c] = c
    BY <1>1, <2>1 DEF FilesTypeOK, At, ArchiveInv, PublishedIsWhole, DiskKeeps, Relying
  <2>3. blob' = blob /\ volatile' = volatile /\ damaged' = damaged
    BY <2>1 DEF CommitIngest
  <2>4. ASSUME NEW j \in ArtifactKeys, NEW i \in DOMAIN versions'[j]
        PROVE  blob[versions'[j][i]] = versions'[j][i]
    <3>1. CASE i \in Versions(j)
      BY <1>1, <2>1, <3>1, CommitVersions DEF Readable
    <3>2. CASE i \notin Versions(j)
      <4>1. j = k /\ op # "artifact.duplicate"
        <5>1. versions'[j] # versions[j]
          BY <2>4, <3>2 DEF Versions
        <5>2. j = k
          BY <1>1, <2>1, <5>1, CommitVersions
        <5> QED
          BY <2>1, <5>1, <5>2 DEF Commits
      <4>2. i = n /\ versions'[j][i] = c
        BY <1>1, <2>1, <2>4, <3>2, <4>1, CommitVersions
      <4> QED
        BY <2>2, <4>2
    <3> QED
      BY <3>1, <3>2
  <2>5. Readable'
    BY <2>3, <2>4 DEF Readable, Versions
  <2> QED
    BY <1>1, <2>3, <2>5 DEF DiskKeeps
<1> QED
  BY <1>1, <1>2, <1>3, IngestCases

\* Where nobody damages files and a rename that returned survives a loss of
\* power, no content is two versions of an artifact and every version can be
\* read back, wherever a process fails or crashes: the bytes are stored before
\* the metadata that names them, and nothing removes them.
THEOREM IngestionIsAnArchive ==
    ASSUME DirectorySynced = TRUE, MaxDamage = 0
    PROVE  IngestSpec => ArchiveSpec
<1>1. IngestInit => PublishedIsWhole /\ DiskKeeps /\ Readable
  BY DEF IngestInit, FilesInit, PublishedIsWhole, Answers, At, Resting,
         DiskKeeps, Readable, Versions
<1>2. ArchiveInv /\ [IngestNext]_ingestVars => (DiskKeeps /\ Readable)'
  BY ReadableStep
<1>3. IngestSpec => []PublishedIsWhole
  BY IngestionUsesStore, PublishedStaysWhole, PTL
<1>4. IngestSpec => []ArchiveInv
  BY <1>1, <1>2, <1>3, IngestInvariant, PTL DEF IngestSpec, ArchiveInv
<1>5. IngestInit => Archive!ArchiveInit
  <2> SUFFICES ASSUME IngestInit PROVE Archive!ArchiveInit
    OBVIOUS
  <2>1. versions = [k \in ArtifactKeys |-> <<>>]
    BY DEF IngestInit
  <2>2. MetadataOK /\ Readable
    BY <1>1, IngestStart DEF IngestInv
  <2> QED
    BY <2>1, <2>2, ReadableIsHistory DEF Archive!ArchiveInit
<1>6. ArchiveInv /\ ArchiveInv' /\ [IngestNext]_ingestVars
          => [Archive!ArchiveNext]_(Archive!archive)
  <2> SUFFICES ASSUME ArchiveInv, ArchiveInv', [IngestNext]_ingestVars
               PROVE  [Archive!ArchiveNext]_(Archive!archive)
    OBVIOUS
  <2> DEFINE shown == [k \in ArtifactKeys |->
                          [i \in Versions(k) |-> blob[versions[k][i]]]]
  <2>1. shown = versions
    BY ReadableIsHistory DEF ArchiveInv, IngestInv
  <2>2. shown' = versions'
    BY ReadableIsHistoryNext DEF ArchiveInv, IngestInv
  <2>3. FilesTypeOK /\ MetadataOK
    BY DEF ArchiveInv, IngestInv, FilesInv
  <2>4. CASE UNCHANGED versions
    <3>1. shown' = shown
      BY <2>1, <2>2, <2>4
    <3> QED
      BY <2>4, <3>1 DEF Archive!archive
  <2>5. CASE versions' # versions
    <3>1. PICK t \in Threads : CommitIngest(t)
      BY <2>3, <2>5, IngestCases DEF metadata
    <3>2. PICK k, c, n, row, op :
             k \in ArtifactKeys /\ c \in Contents /\ Commits(k, c, n, row, op)
      BY <2>3, <3>1, CommitFacts
    <3>3. /\ \A i \in Versions(k) : versions[k][i] # c
          /\ versions' = [versions EXCEPT ![k] = Append(versions[k], c)]
      BY <2>5, <3>2 DEF Commits
    <3>4. ~Archive!Holds(k, c)
      BY <3>3 DEF Archive!Holds, Versions
    <3>5. Archive!Extend(k, c)
      BY <2>2, <3>3, <3>4 DEF Archive!Extend
    <3> QED
      BY <3>2, <3>5 DEF Archive!ArchiveNext
  <2> QED
    BY <2>4, <2>5
<1> QED
  BY <1>4, <1>5, <1>6, PTL
  DEF IngestSpec, ArchiveSpec, Archive!ArchiveSpec
=============================================================================
