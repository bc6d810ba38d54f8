------------------------------ MODULE RunStoreProofs ------------------------------
(* FileStore implements the register for any number of clients, and of the    *)
(* updates with one expected revision one wins.  The invariant has two parts: *)
(* what the files and objects contain, and what the holder of the lock may    *)
(* rely on.  A step of the store is a step of the register or none, and the   *)
(* first part is kept by every step of the register.                          *)
EXTENDS RunStore, FiniteSetTheorems, TLAPS

Typed ==
  /\ lock \in Clients \cup {Nobody}
  /\ stage \in [Clients -> {"idle", "locking", "locked", "written", "replaced"}]
  /\ op \in [Clients -> {"none", "save", "cas", "snapshot", "load", "envelope"}]
  /\ draft \in [Clients -> Contents \cup {NoRun}]

\* The updates that a record contains have won, each against a revision of its own.
Sound(v) ==
  v # NoRun =>
    /\ v \in Contents
    /\ \A c \in v.marks : outcome[c] = "won" /\ expected[c] < v.revision
    /\ \A c, d \in v.marks : c # d => expected[c] # expected[d]

Recorded ==
  /\ copy \in [Clients -> Contents \cup {NoRun}]
  /\ expected \in [Clients -> Revisions \cup {0}]
  /\ outcome \in [Clients -> {"none", "asked", "won", "lost"}] /\ undone \subseteq Clients
  /\ Sound(disk) /\ \A c \in Clients : Sound(copy[c])
  /\ \A c \in Clients : outcome[c] = "won" => c \in undone \/ (disk # NoRun /\ c \in disk.marks)

\* Who works on the files has the lock, and the draft is still what it should be.
WorkingAt(c) ==
  /\ stage[c] \in {"locked", "written", "replaced"} => lock = c
  /\ stage[c] \in {"locking", "locked", "written"} =>
       /\ op[c] = "cas" => outcome[c] = "asked"
       /\ op[c] \in {"save", "load"} => copy[c] # NoRun
  /\ stage[c] = "written" =>
       /\ op[c] \in {"save", "load"} => draft[c] = copy[c]
       /\ op[c] = "cas" => Matches(c) /\ draft[c] = Updated(c)
Working == \A c \in Clients : WorkingAt(c)

IInv == Typed /\ Recorded /\ Working

-------------------------------------------------------------------------------

LEMMA ContentsType ==
  ASSUME NEW v \in Contents
  PROVE  /\ v.marks \in SUBSET Clients /\ v.revision = 1 + Cardinality(v.marks)
         /\ v = [revision |-> v.revision, marks |-> v.marks]
         /\ v.revision \in Nat
<1>1. PICK m \in SUBSET Clients : v = [revision |-> 1 + Cardinality(m), marks |-> m]
  BY DEF Contents
<1>2. Cardinality(m) \in Nat
  BY FS_Subset, FS_CardinalityType, RunStoreConstants
<1> QED BY <1>1, <1>2

LEMMA FreshType == Fresh \in Contents /\ Fresh.marks = {} /\ Fresh # NoRun
<1>1. {} \in SUBSET Clients /\ Cardinality({}) = 0
  BY FS_EmptySet
<1>2. Fresh = [revision |-> 1 + Cardinality({}), marks |-> {}]
  BY <1>1 DEF Fresh, Register!Fresh
<1>3. Fresh \in Contents
  BY <1>1, <1>2 DEF Contents
<1> QED BY <1>2, <1>3, RunStoreConstants

\* A client that has asked is in no record yet, so its update is one revision more.
LEMMA UpdatedType ==
  ASSUME Recorded, NEW c \in Clients, outcome[c] = "asked", Matches(c)
  PROVE  /\ Updated(c) \in Contents /\ Updated(c) # NoRun
         /\ Updated(c).marks = disk.marks \cup {c}
         /\ Updated(c).revision = disk.revision + 1
         /\ Updated(c) = [revision |-> disk.revision + 1, marks |-> disk.marks \cup {c}]
<1>1. disk \in Contents /\ c \notin disk.marks /\ disk # NoRun
  BY DEF Recorded, Sound, Matches
<1>2. /\ disk.marks \in SUBSET Clients /\ disk.revision = 1 + Cardinality(disk.marks)
      /\ disk = [revision |-> disk.revision, marks |-> disk.marks] /\ disk.revision \in Nat
  BY <1>1, ContentsType
<1>3. Updated(c) = [revision |-> disk.revision + 1, marks |-> disk.marks \cup {c}]
  BY DEF Updated
<1>4. IsFiniteSet(disk.marks) /\ Cardinality(disk.marks) \in Nat
  BY <1>2, FS_Subset, FS_CardinalityType, RunStoreConstants
<1>5. Cardinality(disk.marks \cup {c}) = Cardinality(disk.marks) + 1
  BY <1>1, <1>4, FS_AddElement
<1>6. Updated(c) = [revision |-> 1 + Cardinality(disk.marks \cup {c}),
                    marks |-> disk.marks \cup {c}]
  BY <1>2, <1>3, <1>4, <1>5
<1>7. disk.marks \cup {c} \in SUBSET Clients
  BY <1>2
<1>8. Updated(c) \in Contents
  BY <1>6, <1>7 DEF Contents
<1> QED BY <1>3, <1>8, RunStoreConstants

-------------------------------------------------------------------------------
(* Every step of the store is a step of the register, or none of it.          *)

LEMMA WithdrawAbandons ==
  ASSUME Recorded, NEW c \in Clients, NEW kept \in BOOLEAN, Withdraw(c, kept)
  PROVE  Register!Abandon(c)
<1>1. copy' \in {copy, [copy EXCEPT ![c] = NoRun]}
  <2>1. CASE kept
    BY <2>1 DEF Withdraw, Recorded
  <2>2. CASE ~kept
    BY <2>2 DEF Withdraw, Recorded
  <2> QED BY <2>1, <2>2
<1>2. CASE outcome[c] = "asked"
  BY <1>1, <1>2 DEF Withdraw, Recorded, Register!Abandon
<1>3. CASE outcome[c] # "asked"
  BY <1>1, <1>3 DEF Withdraw, Recorded, Register!Abandon
<1> QED BY <1>2, <1>3

LEMMA ReplaceWrites ==
  ASSUME IInv, NEW c \in Clients, Replace(c)
  PROVE  Register!Write(c) \/ Register!CompareAndSet(c) \/ UNCHANGED Register!register
<1>1. stage[c] = "written" /\ op[c] \in {"none", "save", "cas", "snapshot", "load", "envelope"}
  BY DEF Replace, IInv, Typed
<1>2. CASE op[c] \in {"save", "load"}
  <2>1. draft[c] = copy[c] /\ copy[c] # NoRun
    BY <1>1, <1>2 DEF IInv, Working, WorkingAt
  <2>2. disk' = copy[c] /\ outcome' = outcome /\ UNCHANGED <<copy, expected>>
    BY <1>2, <2>1 DEF Replace, IInv, Recorded
  <2>3. undone' = IF disk = NoRun THEN undone ELSE undone \cup (disk.marks \ copy[c].marks)
    BY <1>2, <2>1 DEF Replace
  <2> QED BY <2>1, <2>2, <2>3 DEF Register!Write
<1>3. CASE op[c] = "cas"
  <2>1. outcome[c] = "asked" /\ Matches(c) /\ draft[c] = Updated(c)
    BY <1>1, <1>3 DEF IInv, Working, WorkingAt
  <2>2. /\ disk' = Updated(c) /\ outcome' = [outcome EXCEPT ![c] = "won"]
        /\ UNCHANGED <<copy, expected, undone>>
    BY <1>3, <2>1 DEF Replace, IInv, Recorded
  <2>3. Updated(c) = Register!Updated(c)
    BY <2>1, UpdatedType DEF IInv, Register!Updated
  <2> QED BY <2>1, <2>2, <2>3 DEF Register!CompareAndSet, Matches, Register!Matches
<1>4. CASE op[c] \in {"none", "snapshot", "envelope"}
  BY <1>4 DEF Replace, IInv, Recorded, Register!register
<1> QED BY <1>1, <1>2, <1>3, <1>4

LEMMA StepRefines ==
  ASSUME IInv, [Next]_vars
  PROVE  [Register!Next]_Register!register
<1>1. CASE UNCHANGED vars
  BY <1>1 DEF vars, Register!register
<1>2. ASSUME NEW c \in Clients, Load(c) \/ SaveCheckpoint(c)
      PROVE  Register!Next
  BY <1>2 DEF Load, SaveCheckpoint, Register!Next, Register!Read
<1>3. ASSUME NEW c \in Clients, NEW r \in Revisions, UpdateWithCas(c, r)
      PROVE  Register!Next
  <2>1. Register!Ask(c, r)
    BY <1>3 DEF UpdateWithCas, Register!Ask
  <2> QED BY <1>3, <2>1 DEF Register!Next
<1>4. ASSUME NEW c \in Clients, Save(c) \/ AcquireLock(c) \/ WriteTemp(c) \/ Compare(c)
      PROVE  UNCHANGED Register!register
  BY <1>4 DEF Save, AcquireLock, WriteTemp, Compare, Register!register
<1>5. ASSUME NEW c \in Clients, Mismatch(c)
      PROVE  Register!Next
  <2>1. outcome[c] = "asked"
    BY <1>5 DEF Mismatch, IInv, Working, WorkingAt
  <2>2. Register!CompareAndSet(c)
    BY <1>5, <2>1 DEF Mismatch, Matches, Register!CompareAndSet, Register!Matches
  <2> QED BY <1>5, <2>2 DEF Register!Next
<1>6. ASSUME NEW c \in Clients, Raise(c) \/ Crash(c)
      PROVE  Register!Next
  <2>1. PICK kept \in BOOLEAN : Withdraw(c, kept)
    BY <1>6 DEF Raise, Crash
  <2> QED BY <1>6, <2>1, WithdrawAbandons DEF IInv, Register!Next
<1>7. ASSUME NEW c \in Clients, Release(c)
      PROVE  [Register!Next]_Register!register
  <2>1. CASE op[c] = "load"
    BY <1>7, <2>1 DEF Release, Register!register
  <2>2. CASE op[c] # "load"
    <3>1. PICK kept \in BOOLEAN : Withdraw(c, kept)
      BY <1>7, <2>2 DEF Release
    <3> QED BY <1>7, <3>1, WithdrawAbandons DEF IInv, Register!Next
  <2> QED BY <2>1, <2>2
<1>8. ASSUME NEW c \in Clients, Replace(c)
      PROVE  [Register!Next]_Register!register
  BY <1>8, ReplaceWrites DEF Register!Next
<1> QED BY <1>1, <1>2, <1>3, <1>4, <1>5, <1>6, <1>7, <1>8 DEF Next

-------------------------------------------------------------------------------
(* The first part of the invariant is a matter of the register alone.         *)

LEMMA RecordedStays ==
  ASSUME Recorded, [Register!Next]_Register!register
  PROVE  Recorded'
<1>1. CASE UNCHANGED Register!register
  BY <1>1 DEF Register!register, Recorded, Sound
<1>2. ASSUME NEW c \in Clients, Register!Read(c)
      PROVE  Recorded'
  <2>1. /\ copy' = [copy EXCEPT ![c] = disk] /\ UNCHANGED <<disk, expected, outcome, undone>>
        /\ disk \in Contents \cup {NoRun}
    BY <1>2 DEF Register!Read, Recorded, Sound
  <2> QED BY <2>1 DEF Recorded, Sound
<1>3. ASSUME NEW c \in Clients, Register!Write(c)
      PROVE  Recorded'
  <2>1. /\ disk' = copy[c] /\ copy[c] # NoRun /\ UNCHANGED <<copy, expected, outcome>>
        /\ undone' = IF disk = NoRun THEN undone ELSE undone \cup (disk.marks \ copy[c].marks)
    BY <1>3 DEF Register!Write
  <2>2. Sound(disk)' /\ \A d \in Clients : Sound(copy[d])'
    BY <2>1 DEF Recorded, Sound
  <2>3. undone' \subseteq Clients
    BY <2>1, ContentsType DEF Recorded, Sound
  <2>4. \A d \in Clients : outcome'[d] = "won" =>
          d \in undone' \/ (disk' # NoRun /\ d \in disk'.marks)
    BY <2>1 DEF Recorded
  <2> QED BY <2>1, <2>2, <2>3, <2>4 DEF Recorded
<1>4. ASSUME NEW c \in Clients, NEW r \in Revisions, Register!Ask(c, r)
      PROVE  Recorded'
  <2>1. /\ outcome[c] \in {"none", "lost"} /\ outcome' = [outcome EXCEPT ![c] = "asked"]
        /\ expected' = [expected EXCEPT ![c] = r] /\ UNCHANGED <<disk, copy, undone>>
    BY <1>4 DEF Register!Ask
  <2>2. ASSUME NEW v, Sound(v)
        PROVE  Sound(v)'
    <3> SUFFICES ASSUME v # NoRun
                 PROVE  /\ v \in Contents
                        /\ \A d \in v.marks : outcome'[d] = "won" /\ expected'[d] < v.revision
                        /\ \A d, e \in v.marks : d # e => expected'[d] # expected'[e]
      BY DEF Sound
    <3>1. v \in Contents /\ c \notin v.marks /\ v.marks \in SUBSET Clients
      BY <2>1, <2>2, ContentsType DEF Sound, Recorded
    <3>2. \A d \in v.marks : outcome'[d] = outcome[d] /\ expected'[d] = expected[d]
      BY <2>1, <3>1 DEF Recorded
    <3> QED BY <2>2, <3>1, <3>2 DEF Sound
  <2>3. Sound(disk)' /\ \A d \in Clients : Sound(copy[d])'
    <3>1. Sound(disk)'
      BY <2>1, <2>2 DEF Recorded, Sound
    <3>2. ASSUME NEW d \in Clients PROVE Sound(copy[d])'
      BY <2>1, <2>2 DEF Recorded, Sound
    <3> QED BY <3>1, <3>2
  <2>4. \A d \in Clients : outcome'[d] = "won" => outcome[d] = "won"
    BY <2>1 DEF Recorded
  <2>5. /\ expected' \in [Clients -> Revisions \cup {0}]
        /\ outcome' \in [Clients -> {"none", "asked", "won", "lost"}]
    BY <2>1 DEF Recorded
  <2> QED BY <2>1, <2>3, <2>4, <2>5 DEF Recorded
<1>5. ASSUME NEW c \in Clients, Register!CompareAndSet(c), Register!Matches(c),
             disk' = Register!Updated(c)
      PROVE  Recorded'
  <2>1. /\ outcome[c] = "asked" /\ Matches(c) /\ disk # NoRun /\ disk.revision = expected[c]
        /\ outcome' = [outcome EXCEPT ![c] = "won"] /\ UNCHANGED <<copy, expected, undone>>
    BY <1>5 DEF Register!CompareAndSet, Register!Matches, Matches
  <2>2. /\ disk \in Contents /\ disk.marks \in SUBSET Clients /\ disk.revision \in Nat
        /\ \A d \in disk.marks : outcome[d] = "won" /\ expected[d] < disk.revision
        /\ \A d, e \in disk.marks : d # e => expected[d] # expected[e]
        /\ expected \in [Clients -> Nat]
    <3>1. disk \in Contents /\ Sound(disk)
      BY <2>1 DEF Recorded, Sound
    <3>2. Revisions \cup {0} \subseteq Nat
      BY DEF Revisions
    <3> QED BY <2>1, <3>1, <3>2, ContentsType DEF Recorded, Sound
  <2>3. /\ disk' \in Contents /\ disk'.marks = disk.marks \cup {c}
        /\ disk'.revision = disk.revision + 1 /\ disk' # NoRun
    BY <1>5, <2>1, UpdatedType DEF Register!Updated
  <2>4. \A d \in Clients : outcome[d] = "won" => outcome'[d] = "won"
    BY <2>1 DEF Recorded
  <2>5. Sound(disk)'
    <3>1. \A d \in disk'.marks : outcome'[d] = "won" /\ expected'[d] < disk'.revision
      BY <2>1, <2>2, <2>3, <2>4 DEF Recorded
    <3>2. \A d, e \in disk'.marks : d # e => expected'[d] # expected'[e]
      <4> SUFFICES ASSUME NEW d \in disk'.marks, NEW e \in disk'.marks, d # e
                   PROVE  expected[d] # expected[e]
        BY <2>1
      <4>1. d \in Clients /\ e \in Clients
        BY <2>2, <2>3
      <4> QED BY <2>1, <2>2, <2>3, <4>1
    <3> QED BY <2>3, <3>1, <3>2 DEF Sound
  <2>6. ASSUME NEW d \in Clients PROVE Sound(copy[d])'
    <3>1. copy'[d] = copy[d] /\ Sound(copy[d])
      BY <2>1 DEF Recorded
    <3>2. copy[d] # NoRun => copy[d] \in Contents /\ copy[d].marks \in SUBSET Clients
      BY <3>1, ContentsType DEF Sound
    <3> QED BY <2>1, <2>4, <3>1, <3>2 DEF Sound
  <2>7. \A d \in Clients : outcome'[d] = "won" => d \in undone' \/ d \in disk'.marks
    BY <2>1, <2>3 DEF Recorded
  <2>8. outcome' \in [Clients -> {"none", "asked", "won", "lost"}]
    BY <2>1 DEF Recorded
  <2> QED BY <2>1, <2>3, <2>5, <2>6, <2>7, <2>8 DEF Recorded
<1>6. ASSUME NEW c \in Clients, outcome[c] = "asked", NEW o \in {"none", "lost"},
             outcome' = [outcome EXCEPT ![c] = o], expected' = [expected EXCEPT ![c] = 0],
             UNCHANGED <<disk, undone>>, copy' \in {copy, [copy EXCEPT ![c] = NoRun]}
      PROVE  Recorded'
  <2>1. ASSUME NEW v, Sound(v)
        PROVE  Sound(v)'
    <3> SUFFICES ASSUME v # NoRun
                 PROVE  /\ v \in Contents
                        /\ \A d \in v.marks : outcome'[d] = "won" /\ expected'[d] < v.revision
                        /\ \A d, e \in v.marks : d # e => expected'[d] # expected'[e]
      BY DEF Sound
    <3>1. v \in Contents /\ c \notin v.marks /\ v.marks \in SUBSET Clients
      BY <1>6, <2>1, ContentsType DEF Sound, Recorded
    <3>2. \A d \in v.marks : outcome'[d] = outcome[d] /\ expected'[d] = expected[d]
      BY <1>6, <3>1 DEF Recorded
    <3> QED BY <2>1, <3>1, <3>2 DEF Sound
  <2>2. Sound(disk)'
    BY <1>6, <2>1 DEF Recorded, Sound
  <2>3. ASSUME NEW d \in Clients PROVE Sound(copy[d])'
    <3>1. copy'[d] = copy[d] \/ copy'[d] = NoRun
      BY <1>6 DEF Recorded
    <3> QED BY <2>1, <3>1 DEF Recorded, Sound
  <2>4. \A d \in Clients : outcome'[d] = "won" => outcome[d] = "won"
    BY <1>6 DEF Recorded
  <2>5. /\ expected' \in [Clients -> Revisions \cup {0}]
        /\ outcome' \in [Clients -> {"none", "asked", "won", "lost"}]
        /\ copy' \in [Clients -> Contents \cup {NoRun}]
    BY <1>6 DEF Recorded
  <2> QED BY <1>6, <2>2, <2>3, <2>4, <2>5 DEF Recorded
<1>7. ASSUME NEW c \in Clients, Register!Abandon(c)
      PROVE  Recorded'
  <2>1. CASE outcome[c] = "asked"
    BY <1>6, <1>7, <2>1 DEF Register!Abandon
  <2>2. CASE outcome[c] # "asked"
    <3>1. /\ UNCHANGED <<disk, expected, outcome, undone>>
          /\ copy' \in {copy, [copy EXCEPT ![c] = NoRun]}
      BY <1>7, <2>2 DEF Register!Abandon
    <3>2. /\ copy' \in [Clients -> Contents \cup {NoRun}]
          /\ \A d \in Clients : copy'[d] = copy[d] \/ copy'[d] = NoRun
      BY <3>1 DEF Recorded
    <3> QED BY <3>1, <3>2 DEF Recorded, Sound
  <2> QED BY <2>1, <2>2
<1>8. ASSUME NEW c \in Clients, Register!CompareAndSet(c)
      PROVE  Recorded'
  <2>1. CASE Register!Matches(c) /\ disk' = Register!Updated(c)
    BY <1>5, <1>8, <2>1
  <2>2. CASE ~Register!Matches(c)
    BY <1>6, <1>8, <2>2 DEF Register!CompareAndSet
  <2> QED BY <1>8, <2>1, <2>2 DEF Register!CompareAndSet
<1> QED BY <1>1, <1>2, <1>3, <1>4, <1>7, <1>8 DEF Register!Next

-------------------------------------------------------------------------------
(* The second part: only the holder of the lock changes the file.             *)

\* What the step of one client leaves to the others.
LeavesTheOthers(c) ==
  /\ \A d \in Clients : d # c =>
       /\ stage'[d] = stage[d] /\ op'[d] = op[d] /\ draft'[d] = draft[d]
       /\ copy'[d] = copy[d] /\ expected'[d] = expected[d] /\ outcome'[d] = outcome[d]
       /\ lock = d => lock' = d
  /\ disk' = disk \/ lock = c

LEMMA OthersGoOn ==
  ASSUME IInv, NEW c \in Clients, LeavesTheOthers(c), WorkingAt(c)'
  PROVE  Working'
<1> SUFFICES ASSUME NEW d \in Clients, d # c PROVE WorkingAt(d)'
  BY DEF Working
<1>1. WorkingAt(d)
  BY DEF IInv, Working
<1>2. CASE stage[d] = "written"
  <2>1. lock = d /\ disk' = disk
    BY <1>1, <1>2 DEF WorkingAt, LeavesTheOthers
  <2> QED BY <1>1, <2>1 DEF WorkingAt, LeavesTheOthers, Matches, Updated
<1>3. CASE stage[d] # "written"
  BY <1>1, <1>3 DEF WorkingAt, LeavesTheOthers
<1> QED BY <1>2, <1>3

\* A client that is idle again, for whatever reason.
LEMMA IdleAgain ==
  ASSUME IInv, NEW c \in Clients, Finish(c), disk' = disk,
         \A d \in Clients : d # c =>
           copy'[d] = copy[d] /\ expected'[d] = expected[d] /\ outcome'[d] = outcome[d]
  PROVE  Typed' /\ Working'
<1>1. Typed'
  BY DEF IInv, Typed, Finish, Staged, Unlocked
<1>2. LeavesTheOthers(c)
  BY DEF LeavesTheOthers, IInv, Typed, Finish, Staged, Unlocked
<1>3. WorkingAt(c)'
  BY DEF WorkingAt, IInv, Typed, Finish, Staged
<1> QED BY <1>1, <1>2, <1>3, OthersGoOn

LEMMA WithdrawIsOwn ==
  ASSUME IInv, NEW c \in Clients, NEW kept \in BOOLEAN, Withdraw(c, kept)
  PROVE  /\ disk' = disk
         /\ \A d \in Clients : d # c =>
              copy'[d] = copy[d] /\ expected'[d] = expected[d] /\ outcome'[d] = outcome[d]
BY DEF Withdraw, IInv, Recorded

LEMMA WorkingStays ==
  ASSUME IInv, [Next]_vars
  PROVE  Typed' /\ Working'
<1>0. CASE UNCHANGED vars
  BY <1>0 DEF vars, IInv, Typed, Working, WorkingAt, Matches, Updated
<1>1. ASSUME NEW c \in Clients, Load(c)
      PROVE  Typed' /\ Working'
  <2>1. Typed'
    BY <1>1 DEF Load, IInv, Typed
  <2>2. LeavesTheOthers(c)
    BY <1>1 DEF Load, LeavesTheOthers, IInv, Recorded
  <2>3. WorkingAt(c)'
    BY <1>1 DEF Load, WorkingAt
  <2> QED BY <2>1, <2>2, <2>3, OthersGoOn
<1>2. ASSUME NEW c \in Clients, Save(c)
      PROVE  Typed' /\ Working'
  <2>1. PICK o \in {"save", "snapshot"} : Begin(c, o)
    BY <1>2 DEF Save
  <2>2. Typed'
    BY <1>2, <2>1 DEF Save, Begin, Staged, IInv, Typed
  <2>3. LeavesTheOthers(c)
    BY <1>2, <2>1 DEF Save, Begin, Staged, LeavesTheOthers, IInv, Typed
  <2>4. WorkingAt(c)'
    BY <1>2, <2>1 DEF Save, Begin, Staged, WorkingAt, IInv, Typed
  <2> QED BY <2>2, <2>3, <2>4, OthersGoOn
<1>3. ASSUME NEW c \in Clients, NEW r \in Revisions, UpdateWithCas(c, r)
      PROVE  Typed' /\ Working'
  <2>1. Typed'
    BY <1>3 DEF UpdateWithCas, Begin, Staged, IInv, Typed
  <2>2. LeavesTheOthers(c)
    BY <1>3 DEF UpdateWithCas, Begin, Staged, LeavesTheOthers, IInv, Typed, Recorded
  <2>3. WorkingAt(c)'
    BY <1>3 DEF UpdateWithCas, Begin, Staged, WorkingAt, IInv, Typed, Recorded
  <2> QED BY <2>1, <2>2, <2>3, OthersGoOn
<1>4. ASSUME NEW c \in Clients, SaveCheckpoint(c)
      PROVE  Typed' /\ Working'
  <2>1. Typed'
    BY <1>4 DEF SaveCheckpoint, Begin, Staged, IInv, Typed
  <2>2. LeavesTheOthers(c)
    BY <1>4 DEF SaveCheckpoint, Begin, Staged, LeavesTheOthers, IInv, Typed, Recorded
  <2>3. WorkingAt(c)'
    BY <1>4 DEF SaveCheckpoint, Begin, Staged, WorkingAt, IInv, Typed, Recorded
  <2> QED BY <2>1, <2>2, <2>3, OthersGoOn
<1>5. ASSUME NEW c \in Clients, AcquireLock(c)
      PROVE  Typed' /\ Working'
  <2>1. Typed'
    BY <1>5 DEF AcquireLock, Staged, IInv, Typed
  <2>2. LeavesTheOthers(c)
    BY <1>5, RunStoreConstants DEF AcquireLock, LockFree, Staged, LeavesTheOthers, IInv, Typed
  <2>3. WorkingAt(c)'
    BY <1>5 DEF AcquireLock, Staged, WorkingAt, IInv, Typed, Working
  <2> QED BY <2>1, <2>2, <2>3, OthersGoOn
<1>6. ASSUME NEW c \in Clients, Raise(c) \/ Crash(c)
      PROVE  Typed' /\ Working'
  <2>1. Finish(c) /\ \E kept \in BOOLEAN : Withdraw(c, kept)
    BY <1>6 DEF Raise, Crash
  <2> QED BY <2>1, WithdrawIsOwn, IdleAgain
<1>7. ASSUME NEW c \in Clients, Mismatch(c)
      PROVE  Typed' /\ Working'
  <2>1. /\ Finish(c) /\ disk' = disk
        /\ \A d \in Clients : d # c =>
             copy'[d] = copy[d] /\ expected'[d] = expected[d] /\ outcome'[d] = outcome[d]
    BY <1>7 DEF Mismatch, IInv, Recorded
  <2> QED BY <2>1, IdleAgain
<1>8. ASSUME NEW c \in Clients, WriteTemp(c)
      PROVE  Typed' /\ Working'
  <2>1. Typed'
    BY <1>8 DEF WriteTemp, Staged, IInv, Typed, Recorded
  <2>2. LeavesTheOthers(c)
    BY <1>8 DEF WriteTemp, Staged, LeavesTheOthers, IInv, Typed
  <2>3. WorkingAt(c)'
    BY <1>8 DEF WriteTemp, Staged, WorkingAt, IInv, Typed, Working
  <2> QED BY <2>1, <2>2, <2>3, OthersGoOn
<1>9. ASSUME NEW c \in Clients, Compare(c)
      PROVE  Typed' /\ Working'
  <2>1. Updated(c) \in Contents
    BY <1>9, UpdatedType DEF Compare, IInv, Working, WorkingAt
  <2>2. Typed'
    BY <1>9, <2>1 DEF Compare, Staged, IInv, Typed
  <2>3. LeavesTheOthers(c)
    BY <1>9 DEF Compare, Staged, LeavesTheOthers, IInv, Typed
  <2>4. WorkingAt(c)'
    BY <1>9 DEF Compare, Staged, WorkingAt, IInv, Typed, Working, Matches, Updated
  <2> QED BY <2>2, <2>3, <2>4, OthersGoOn
<1>10. ASSUME NEW c \in Clients, Replace(c)
       PROVE  Typed' /\ Working'
  <2>1. Typed'
    BY <1>10 DEF Replace, Staged, IInv, Typed
  <2>2. lock = c
    BY <1>10 DEF Replace, IInv, Working, WorkingAt
  <2>3. LeavesTheOthers(c)
    BY <1>10, <2>2 DEF Replace, Staged, LeavesTheOthers, IInv, Typed, Recorded
  <2>4. WorkingAt(c)'
    BY <1>10, <2>2 DEF Replace, Staged, WorkingAt, IInv, Typed
  <2> QED BY <2>1, <2>3, <2>4, OthersGoOn
<1>11. ASSUME NEW c \in Clients, Release(c)
       PROVE  Typed' /\ Working'
  <2>1. CASE op[c] = "load"
    <3>1. /\ lock' = Unlocked(c) /\ Staged(c, "locking") /\ op' = [op EXCEPT ![c] = "envelope"]
          /\ UNCHANGED <<disk, copy, draft, expected, outcome, undone>>
      BY <1>11, <2>1 DEF Release
    <3>2. Typed'
      BY <3>1 DEF Staged, Unlocked, IInv, Typed
    <3>3. LeavesTheOthers(c)
      BY <3>1 DEF Staged, Unlocked, LeavesTheOthers, IInv, Typed
    <3>4. WorkingAt(c)'
      BY <3>1 DEF Staged, WorkingAt, IInv, Typed
    <3> QED BY <3>2, <3>3, <3>4, OthersGoOn
  <2>2. CASE op[c] # "load"
    <3>1. Finish(c) /\ \E kept \in BOOLEAN : Withdraw(c, kept)
      BY <1>11, <2>2 DEF Release
    <3> QED BY <3>1, WithdrawIsOwn, IdleAgain
  <2> QED BY <2>1, <2>2
<1> QED BY <1>0, <1>1, <1>2, <1>3, <1>4, <1>5, <1>6, <1>7, <1>8, <1>9, <1>10, <1>11 DEF Next

-------------------------------------------------------------------------------

LEMMA InitIInv == Init => IInv
<1> SUFFICES ASSUME Init PROVE IInv
  OBVIOUS
<1>1. PICK c \in Clients : copy = [d \in Clients |-> IF d = c THEN Fresh ELSE NoRun]
  BY DEF Init
<1>2. \A d \in Clients : copy[d] = Fresh \/ copy[d] = NoRun
  BY <1>1
<1>3. copy \in [Clients -> Contents \cup {NoRun}]
  BY <1>1, FreshType
<1>4. Typed
  BY DEF Init, Typed
<1>5. Recorded
  <2>1. Sound(disk)
    BY DEF Init, Sound
  <2>2. ASSUME NEW d \in Clients PROVE Sound(copy[d])
    BY <1>2, FreshType DEF Sound
  <2> QED BY <1>3, <2>1, <2>2 DEF Init, Recorded
<1>6. Working
  BY DEF Init, Working, WorkingAt
<1> QED BY <1>4, <1>5, <1>6 DEF IInv

LEMMA Invariant == Spec => []IInv
<1>1. IInv /\ [Next]_vars => IInv'
  BY StepRefines, RecordedStays, WorkingStays DEF IInv
<1> QED BY InitIInv, <1>1, PTL DEF Spec

\* For any number of clients, every variable of the store keeps its type: a file
\* that is read is a record that somebody has written completely.
THEOREM TypeCorrect == Spec => []TypeOK
<1>1. IInv => TypeOK
  BY DEF IInv, Typed, Recorded, Sound, TypeOK
<1> QED BY Invariant, <1>1, PTL

\* For any number of clients, the files, temporary files and lock of FileStore
\* implement the register: each operation takes effect at one instant.
THEOREM Implements == Spec => Atomic
<1>1. Init => Register!Init
  BY DEF Init, Register!Init, Fresh
<1> QED BY Invariant, <1>1, StepRefines, PTL DEF Spec, Atomic, Register!Spec

\* For any number of clients, of the updates with one expected revision one wins
\* and stays the only one, unless a save undoes it.
THEOREM OneWins == Spec => []WinsOnce
<1>1. IInv => WinsOnce
  BY DEF IInv, Recorded, Sound, WinsOnce
<1> QED BY Invariant, <1>1, PTL

===============================================================================
