--------------------------- MODULE BacklogProofs ---------------------------
(***************************************************************************)
(* For any number of processes, titles, blocks and writes: an allocated    *)
(* number is above everything the allocation has seen.  For one process    *)
(* that keeps the backlog, whatever git does beside it: no write of its    *)
(* own is lost and no number is given twice.  With gintrack doctor among   *)
(* any number of processes: a renumbering is done or it is not.            *)
(***************************************************************************)
EXTENDS Renumber, FiniteSetTheorems, SequenceTheorems, TLAPS,
        WellFoundedInduction, NaturalsInduction

(* The largest of a bounded set of numbers exists.                         *)
LEMMA LargestExists ==
  ASSUME NEW S \in SUBSET Nat, NEW m \in Nat, \A v \in S : v <= m
  PROVE  \E x \in S \cup {0} : \A v \in S \cup {0} : v <= x
<1> DEFINE D == {m - v : v \in S \cup {0}}
<1>1. D \subseteq Nat /\ D # {}
  OBVIOUS
<1>2. IsWellFoundedOn(OpToRel(<, Nat), Nat)
  BY NatLessThanWellFounded
<1>3. PICK d \in D : \A y \in D : ~(<<y, d>> \in OpToRel(<, Nat))
  BY <1>1, <1>2, WFMin
<1>4. PICK x \in S \cup {0} : d = m - x
  OBVIOUS
<1>5. ASSUME NEW v \in S \cup {0} PROVE v <= x
  <2>1. m - v \in D /\ m - v \in Nat /\ d \in Nat
    BY <1>1
  <2>2. ~(m - v < d)
    BY <1>3, <2>1 DEF OpToRel
  <2> QED
    BY <2>1, <2>2, <1>4
<1> QED
  BY <1>5

(* maxInt returns a number of the set, or 0, and none is above it.         *)
LEMMA MaxIntIs ==
  ASSUME NEW S \in SUBSET Nat, NEW m \in Nat, \A v \in S : v <= m
  PROVE  /\ MaxInt(S) \in Nat
         /\ \A v \in S : v <= MaxInt(S)
<1>1. \E x \in S \cup {0} : \A v \in S \cup {0} : v <= x
  BY LargestExists
<1>2. MaxInt(S) \in S \cup {0} /\ \A v \in S \cup {0} : v <= MaxInt(S)
  BY <1>1 DEF MaxInt
<1>3. S \cup {0} \subseteq Nat
  OBVIOUS
<1> HIDE DEF MaxInt
<1> QED
  BY <1>2, <1>3

(* nextNumber is above all numbers taken, above the hint and above the     *)
(* blocks, so it is in none of them.                                       *)
LEMMA NextNumberIsNew ==
  ASSUME NEW m \in Nat, NEW taken \in SUBSET (0..m), NEW hint \in 0..m,
         NEW blocks \in SUBSET ((0..m) \X (0..m))
  PROVE  /\ NextNumber(taken, hint, blocks) \in Nat \ {0}
         /\ \A v \in taken \cup {hint} : v < NextNumber(taken, hint, blocks)
         /\ \A b \in blocks : ~InBlock(NextNumber(taken, hint, blocks), b)
<1> DEFINE S == taken \cup {hint} \cup {b[2] : b \in blocks}
<1>1. S \in SUBSET Nat /\ \A v \in S : v <= m
  <2>1. \A b \in blocks : b[2] \in 0..m
    OBVIOUS
  <2>2. \A v \in S : v \in 0..m
    BY <2>1
  <2> HIDE DEF S
  <2> QED
    BY <2>2
<1>2. MaxInt(S) \in Nat /\ \A v \in S : v <= MaxInt(S)
  BY <1>1, MaxIntIs
<1>3. NextNumber(taken, hint, blocks) = MaxInt(S) + 1
  BY DEF NextNumber
<1>4. ASSUME NEW b \in blocks PROVE ~InBlock(MaxInt(S) + 1, b)
  <2>1. b[2] \in S /\ b[2] \in Nat /\ b[1] \in Nat
    BY <1>1
  <2> QED
    BY <1>2, <2>1 DEF InBlock
<1> HIDE DEF S
<1>5. \A v \in taken \cup {hint} : v <= MaxInt(S) /\ v \in Nat
  BY <1>2 DEF S
<1> QED
  BY <1>2, <1>3, <1>4, <1>5

-----------------------------------------------------------------------------
(* Types.  What an operation carries depends on how far it has come; the   *)
(* last places are of gintrack doctor, whose operations DoctorOK describes.*)

Places == {"idle", "read counter", "stage counter", "land counter", "guard", "stage",
           "land", "unlink", "remove", "scan", "plan", "confirm", "undo"} \cup Committing

Draft == [n : Numbers, title : Titles, item : 0..MaxWrites, rev : 0..MaxWrites,
          dated : BOOLEAN, broken : BOOLEAN, maker : Writers, writer : Writers]

Creating(p) == op[p].n \in Numbers /\ op[p].title \in Titles
Changing(p) ==
    op[p] = [kind |-> op[p].kind, quoted |-> op[p].quoted, old |-> op[p].old,
             file |-> op[p].file]

OpOK(p) ==
    /\ pc[p] \in {"read counter", "stage counter", "land counter", "guard"} => Creating(p)
    /\ pc[p] = "stage counter" => op[p].read \in Config
    /\ pc[p] \in {"stage", "land", "unlink", "remove"} =>
         Changing(p) /\ op[p].file \in Draft

TypeInv ==
    /\ TypeOK
    /\ pc \in [Processes -> Places]
    /\ op = [p \in Processes |-> op[p]]
    /\ \A p \in Processes : OpOK(p)

LEMMA InitTypes == Init => TypeInv
<1> SUFFICES ASSUME Init PROVE TypeInv
  OBVIOUS
<1> USE BacklogAssumption
<1>1. files \subseteq File /\ OnePerPath(files)
  BY DEF Init
<1>2. tmps \subseteq File /\ OnePerPath(tmps)
  BY DEF Init, OnePerPath
<1>3. yaml \in Config /\ ytmp = <<>>
  <2>1. <<>> \in [{} -> Numbers] /\ {} \in SUBSET Numbers
    OBVIOUS
  <2>2. <<>> \in RedirectMaps
    BY <2>1 DEF RedirectMaps
  <2> QED
    BY <2>2 DEF Init, Config
<1>4. cfg \in [Processes -> Config] /\ reserved \in [Processes -> 0..MaxNumber]
  BY <1>3 DEF Init
<1>5. clock \in 0..MaxWrites /\ pulls \in 0..MaxPulls /\ failures \in 0..MaxFailures
  BY DEF Init
<1>6. pc \in [Processes -> Places] /\ op = [p \in Processes |-> op[p]]
  BY DEF Init, Places
<1>7. \A p \in Processes : OpOK(p)
  BY DEF Init, OpOK
<1> QED
  BY <1>1, <1>2, <1>3, <1>4, <1>5, <1>6, <1>7 DEF TypeInv, TypeOK

(* An allocation of p gives a number above everything p can see.           *)
LEMMA AllocationIsNew ==
  ASSUME TypeInv, NEW p \in Processes
  PROVE  Next1(p) \in Nat \ {0} /\ Fresh(p, Next1(p))
<1> USE BacklogAssumption DEF TypeInv, TypeOK
<1>1. DOMAIN cfg[p].redirects \subseteq Numbers /\ Range(cfg[p].redirects) \subseteq Numbers
  <2>1. cfg[p].redirects \in RedirectMaps
    BY DEF Config
  <2>2. PICK S \in SUBSET Numbers : cfg[p].redirects \in [S -> Numbers]
    BY <2>1 DEF RedirectMaps
  <2> QED
    BY <2>2 DEF Range
<1>2. Taken(p) \in SUBSET (0..MaxNumber)
  <2>1. {f.n : f \in files} \subseteq Numbers
    BY DEF File
  <2>2. Numbers \subseteq 0..MaxNumber /\ reserved[p] \in 0..MaxNumber
    BY DEF Numbers
  <2> QED
    BY <1>1, <2>1, <2>2 DEF Taken
<1>3. cfg[p].counter \in 0..MaxNumber
  BY DEF Config
<1>4. /\ Next1(p) \in Nat \ {0}
      /\ \A v \in Taken(p) \cup {cfg[p].counter} : v < Next1(p)
      /\ \A b \in Blocks : ~InBlock(Next1(p), b)
  BY <1>2, <1>3, NextNumberIsNew DEF Next1
<1>5. \A f \in files : f.n \in Taken(p)
  BY DEF Taken
<1>6. \A m \in DOMAIN cfg[p].redirects :
         m \in Taken(p) /\ cfg[p].redirects[m] \in Taken(p)
  BY DEF Taken, Range
<1>7. reserved[p] \in Taken(p)
  BY DEF Taken
<1> QED
  BY <1>4, <1>5, <1>6, <1>7 DEF Fresh

(* What can become of the files keeps them one to a path.                  *)
LEMMA PutKeeps ==
  ASSUME NEW S \in SUBSET File, OnePerPath(S), NEW f \in File
  PROVE  Put(S, f) \in SUBSET File /\ OnePerPath(Put(S, f))
BY DEF Put, At, OnePerPath

LEMMA LandKeeps ==
  ASSUME NEW S \in SUBSET File, OnePerPath(S), NEW T \in SUBSET File, OnePerPath(T),
         NEW path
  PROVE  /\ (S \ At(S, path)) \cup At(T, path) \in SUBSET File
         /\ OnePerPath((S \ At(S, path)) \cup At(T, path))
BY DEF At, OnePerPath

LEMMA LessKeeps ==
  ASSUME NEW S \in SUBSET File, OnePerPath(S), NEW T
  PROVE  S \ T \in SUBSET File /\ OnePerPath(S \ T)
BY DEF OnePerPath

LEMMA StagedIsFile ==
  ASSUME NEW d \in Draft, NEW c \in 1..MaxWrites, MaxWrites \in Nat
  PROVE  [d EXCEPT !.rev = c, !.item = IF @ = 0 THEN c ELSE @] \in File
<1>1. CASE d.item = 0
  BY <1>1 DEF Draft, File
<1>2. CASE d.item # 0
  <2>1. d.item \in 1..MaxWrites
    BY <1>2 DEF Draft
  <2> QED
    BY <1>2, <2>1 DEF Draft, File
<1> QED
  BY <1>1, <1>2

LEMMA EditedIsDraft ==
  ASSUME NEW f \in File, NEW t \in Titles, NEW p \in Processes, MaxWrites \in Nat
  PROVE  [f EXCEPT !.title = t, !.writer = p] \in Draft
<1>1. 1..MaxWrites \subseteq 0..MaxWrites /\ p \in Writers
  BY DEF Writers
<1> QED
  BY <1>1 DEF File, Draft

-----------------------------------------------------------------------------
(* Every step keeps the types: one lemma for each of the parts of TypeInv.  *)

LEMMA FilesKeep == TypeInv /\ [Next]_storeVars =>
                     (files \subseteq File /\ OnePerPath(files)
                      /\ tmps \subseteq File /\ OnePerPath(tmps) /\ clock \in 0..MaxWrites)'
<1> SUFFICES ASSUME TypeInv, [Next]_storeVars
    PROVE  /\ files' \in SUBSET File /\ OnePerPath(files')
           /\ tmps' \in SUBSET File /\ OnePerPath(tmps')
           /\ clock' \in 0..MaxWrites
  BY DEF OnePerPath, Path
<1>0. /\ files \in SUBSET File /\ OnePerPath(files)
      /\ tmps \in SUBSET File /\ OnePerPath(tmps)
      /\ clock \in 0..MaxWrites /\ MaxWrites \in Nat
  BY BacklogAssumption DEF TypeInv, TypeOK
<1>1. ASSUME NEW p \in Processes, Stage(p)
      PROVE  UNCHANGED files /\ clock' \in 0..MaxWrites
             /\ tmps' \in SUBSET File /\ OnePerPath(tmps')
  <2> DEFINE f == [op[p].file EXCEPT !.rev = clock', !.item = IF @ = 0 THEN clock' ELSE @]
  <2>1. op[p].file \in Draft
    BY <1>1 DEF Stage, TypeInv, OpOK
  <2>2. clock' \in 1..MaxWrites /\ clock' = clock + 1
    BY <1>0, <1>1 DEF Stage
  <2>3. f \in File
    BY <2>1, <2>2, BacklogAssumption, StagedIsFile
  <2>4. tmps' = Put(tmps, f) /\ UNCHANGED files
    BY <1>1 DEF Stage
  <2> QED
    BY <1>0, <2>2, <2>3, <2>4, PutKeeps
<1>2. ASSUME NEW p \in Processes, Land(p)
      PROVE  /\ files' \in SUBSET File /\ OnePerPath(files')
             /\ tmps' \in SUBSET File /\ OnePerPath(tmps') /\ UNCHANGED clock
  <2> DEFINE path == Path(op[p].file)
  <2>1. CASE At(tmps, path) = {}
    BY <1>0, <1>2, <2>1 DEF Land
  <2>2. CASE At(tmps, path) # {}
    <3>1. /\ files' = (files \ At(files, path)) \cup At(tmps, path)
          /\ tmps' = tmps \ At(tmps, path) /\ UNCHANGED clock
      BY <1>2, <2>2 DEF Land
    <3> HIDE DEF path
    <3>2. files' \in SUBSET File /\ OnePerPath(files')
      BY <1>0, <3>1, LandKeeps
    <3>3. tmps' \in SUBSET File /\ OnePerPath(tmps')
      BY <1>0, <3>1, LessKeeps
    <3> QED
      BY <3>1, <3>2, <3>3
  <2> QED
    BY <2>1, <2>2
<1>3. ASSUME NEW p \in Processes, Unlink(p) \/ RemoveFile(p)
      PROVE  /\ files' \in SUBSET File /\ OnePerPath(files') /\ UNCHANGED <<tmps, clock>>
  <2>1. files' = files \ At(files, op[p].old) /\ UNCHANGED <<tmps, clock>>
    BY <1>3 DEF Unlink, RemoveFile
  <2> QED
    BY <1>0, <2>1, LessKeeps
<1>4. ASSUME NEW n \in Numbers, NEW t \in Titles, NEW dated \in BOOLEAN,
             NEW broken \in BOOLEAN, PullFile(n, t, dated, broken)
      PROVE  /\ files' \in SUBSET File /\ OnePerPath(files')
             /\ UNCHANGED tmps /\ clock' \in 0..MaxWrites
  <2> DEFINE f == [n |-> n, title |-> t, item |-> clock', rev |-> clock',
                   dated |-> dated, broken |-> broken, maker |-> "git", writer |-> "git"]
  <2>1. clock' \in 1..MaxWrites
    BY <1>0, <1>4 DEF PullFile
  <2>2. f \in File
    BY <2>1 DEF File, Writers
  <2>3. files' = files \cup {f} /\ UNCHANGED tmps /\ At(files, <<n, t>>) = {}
    BY <1>4 DEF PullFile
  <2>4. OnePerPath(files')
    BY <1>0, <2>3 DEF OnePerPath, At, Path
  <2> QED
    BY <1>0, <2>1, <2>2, <2>3, <2>4
<1>5. ASSUME NEW f \in files, PullEdit(f)
      PROVE  /\ files' \in SUBSET File /\ OnePerPath(files')
             /\ UNCHANGED tmps /\ clock' \in 0..MaxWrites
  <2>1. clock' \in 1..MaxWrites
    BY <1>0, <1>5 DEF PullEdit
  <2>2. [f EXCEPT !.rev = clock', !.writer = "git"] \in File
    BY <1>0, <2>1 DEF File, Writers
  <2>3. files' = Put(files, [f EXCEPT !.rev = clock', !.writer = "git"]) /\ UNCHANGED tmps
    BY <1>5 DEF PullEdit
  <2> QED
    BY <1>0, <2>1, <2>2, <2>3, PutKeeps
<1>6. ASSUME NEW p \in Processes,
             \/ \E t \in Titles : Allocate(p, t)
             \/ ReadCounter(p) \/ StageCounter(p) \/ LandCounter(p) \/ Guard(p)
             \/ \E n \in Numbers, quoted \in 1..clock, t \in Titles,
                   kind \in {"edit", "hard delete"} : ReadChecked(p, n, quoted, kind, t)
             \/ Rediscover(p) \/ Crash(p)
      PROVE  UNCHANGED <<files, tmps, clock>>
  BY <1>6 DEF Allocate, ReadCounter, StageCounter, LandCounter, Guard, ReadChecked,
     Rediscover, Crash
<1>61. ASSUME NEW p \in Processes, Refuse(p)
       PROVE  /\ tmps' \in SUBSET File /\ OnePerPath(tmps') /\ UNCHANGED <<files, clock>>
  <2>1. CASE tmps' = tmps \ At(tmps, Path(op[p].file))
    BY <1>0, <1>61, <2>1, LessKeeps DEF Refuse
  <2>2. CASE tmps' = tmps
    BY <1>0, <1>61, <2>2 DEF Refuse
  <2> QED
    BY <1>61, <2>1, <2>2 DEF Refuse
<1>62. ASSUME NEW f \in files, PullRemoval(f)
       PROVE  /\ files' \in SUBSET File /\ OnePerPath(files') /\ UNCHANGED <<tmps, clock>>
  BY <1>0, <1>62, LessKeeps DEF PullRemoval
<1>7. CASE UNCHANGED storeVars
  BY <1>0, <1>7 DEF storeVars
<1>8. CASE Next
  <2>1. ASSUME NEW p \in Processes, StoreStep(p)
        PROVE  /\ files' \in SUBSET File /\ OnePerPath(files')
               /\ tmps' \in SUBSET File /\ OnePerPath(tmps')
               /\ clock' \in 0..MaxWrites
    <3>1. CASE Stage(p)
      BY <1>0, <1>1, <3>1
    <3>2. CASE Land(p)
      BY <1>0, <1>2, <3>2
    <3>3. CASE Unlink(p) \/ RemoveFile(p)
      BY <1>0, <1>3, <3>3
    <3>4. CASE UNCHANGED <<files, tmps, clock>>
      BY <1>0, <3>4
    <3>5. CASE Refuse(p)
      BY <1>0, <1>61, <3>5
    <3> QED
      BY <1>6, <2>1, <3>1, <3>2, <3>3, <3>4, <3>5 DEF StoreStep
  <2>2. CASE GitStep
    BY <1>0, <1>4, <1>5, <1>62, <2>2 DEF GitStep
  <2> QED
    BY <1>8, <2>1, <2>2 DEF Next
<1> QED
  BY <1>7, <1>8

Staged == {<<>>} \cup {<<c>> : c \in Config}

LEMMA ConfigKeeps == TypeInv /\ [Next]_storeVars =>
    (/\ yaml \in Config /\ ytmp \in Staged /\ cfg \in [Processes -> Config]
     /\ reserved \in [Processes -> 0..MaxNumber]
     /\ pulls \in 0..MaxPulls /\ failures \in 0..MaxFailures)'
<1> SUFFICES ASSUME TypeInv, [Next]_storeVars
    PROVE  /\ yaml' \in Config /\ ytmp' \in Staged /\ cfg' \in [Processes -> Config]
           /\ reserved' \in [Processes -> 0..MaxNumber]
           /\ pulls' \in 0..MaxPulls /\ failures' \in 0..MaxFailures
  OBVIOUS
<1> DEFINE Kept == /\ yaml' \in Config /\ ytmp' \in Staged
                   /\ cfg' \in [Processes -> Config]
                   /\ reserved' \in [Processes -> 0..MaxNumber]
                   /\ pulls' \in 0..MaxPulls /\ failures' \in 0..MaxFailures
<1>0. /\ yaml \in Config /\ ytmp \in Staged /\ <<>> \in Staged
      /\ cfg \in [Processes -> Config]
      /\ reserved \in [Processes -> 0..MaxNumber]
      /\ pulls \in 0..MaxPulls /\ failures \in 0..MaxFailures
      /\ MaxPulls \in Nat /\ MaxFailures \in Nat /\ MaxNumber \in Nat
  BY BacklogAssumption DEF TypeInv, TypeOK, Staged
<1>1. ASSUME NEW p \in Processes, NEW t \in Titles, Allocate(p, t) PROVE Kept
  <2>1. Next1(p) \in 0..MaxNumber
    <3>1. Next1(p) \in Nat \ {0} /\ Next1(p) <= MaxNumber
      BY <1>1, AllocationIsNew DEF Allocate
    <3> QED
      BY <1>0, <3>1
  <2>2. reserved' = [reserved EXCEPT ![p] = Next1(p)]
        /\ UNCHANGED <<yaml, ytmp, cfg, pulls, failures>>
    BY <1>1 DEF Allocate
  <2> QED
    BY <1>0, <2>1, <2>2
<1>2. ASSUME NEW p \in Processes, StageCounter(p) PROVE Kept
  <2>1. op[p].read \in Config /\ op[p].n \in 0..MaxNumber
    <3>1. op[p].read \in Config /\ op[p].n \in Numbers
      BY <1>2 DEF StageCounter, TypeInv, OpOK, Creating
    <3> QED
      BY <1>0, <3>1 DEF Numbers
  <2>2. ytmp' = <<[op[p].read EXCEPT !.counter = op[p].n]>>
        /\ UNCHANGED <<yaml, cfg, reserved, pulls, failures>>
    BY <1>2 DEF StageCounter
  <2>3. [op[p].read EXCEPT !.counter = op[p].n] \in Config
    BY <2>1 DEF Config
  <2>4. ytmp' \in Staged
    BY <2>2, <2>3 DEF Staged
  <2> QED
    BY <1>0, <2>2, <2>4
<1>21. ASSUME NEW p \in Processes, LandCounter(p) PROVE Kept
  <2>1. CASE ytmp = <<>>
    BY <1>0, <1>21, <2>1 DEF LandCounter
  <2>2. CASE ytmp # <<>>
    <3>0. pc[p] = "land counter"
      BY <1>21 DEF LandCounter
    <3>00. OpOK(p)
      BY DEF TypeInv
    <3>01. op[p].n \in Numbers
      BY <3>0, <3>00 DEF OpOK, Creating
    <3>1. op[p].n \in 0..MaxNumber
      BY <3>01, BacklogAssumption DEF Numbers
    <3>2. yaml' = Head(ytmp) /\ ytmp' = <<>> /\ cfg' = [cfg EXCEPT ![p].counter = op[p].n]
          /\ UNCHANGED <<reserved, pulls, failures>>
      BY <1>21, <2>2 DEF LandCounter
    <3>3. yaml' \in Config
      BY <1>0, <2>2, <3>2 DEF Staged
    <3>4. [cfg[p] EXCEPT !.counter = op[p].n] \in Config
      BY <1>0, <3>1 DEF Config
    <3>5. cfg' \in [Processes -> Config]
      BY <1>0, <3>2, <3>4
    <3> QED
      BY <1>0, <3>2, <3>3, <3>5
  <2> QED
    BY <2>1, <2>2
<1>3. ASSUME NEW p \in Processes, Rediscover(p) \/ Crash(p) PROVE Kept
  <2>1. cfg' = [cfg EXCEPT ![p] = yaml] /\ reserved' = [reserved EXCEPT ![p] = 0]
        /\ UNCHANGED <<yaml, ytmp, pulls>>
    BY <1>3 DEF Rediscover, Crash
  <2>2. failures' \in 0..MaxFailures
    BY <1>0, <1>3 DEF Rediscover, Crash
  <2> QED
    BY <1>0, <2>1, <2>2
<1>4. ASSUME NEW p \in Processes, Refuse(p) PROVE Kept
  <2>1. /\ UNCHANGED <<yaml, cfg, reserved, pulls>>
        /\ failures < MaxFailures /\ failures' = failures + 1
        /\ ytmp' = <<>> \/ ytmp' = ytmp
    BY <1>4 DEF Refuse
  <2> QED
    BY <1>0, <2>1
<1>5. ASSUME NEW p \in Processes,
             \/ ReadCounter(p) \/ Guard(p) \/ Stage(p) \/ Land(p) \/ Unlink(p) \/ RemoveFile(p)
             \/ \E n \in Numbers, quoted \in 1..clock, t \in Titles,
                   kind \in {"edit", "hard delete"} : ReadChecked(p, n, quoted, kind, t)
      PROVE  Kept
  <2>1. UNCHANGED <<yaml, ytmp, cfg, reserved, pulls, failures>>
    BY <1>5 DEF ReadCounter, Guard, Stage, Land, Unlink, RemoveFile, ReadChecked
  <2> QED
    BY <1>0, <2>1
<1>6. CASE GitStep
  <2>1. UNCHANGED <<yaml, ytmp, cfg, reserved, failures>> /\ pulls' = pulls + 1
        /\ pulls < MaxPulls
    BY <1>6 DEF GitStep, PullFile, PullEdit, PullRemoval
  <2> QED
    BY <1>0, <2>1
<1>7. CASE UNCHANGED storeVars
  BY <1>0, <1>7 DEF storeVars
<1> QED
  BY <1>1, <1>2, <1>21, <1>3, <1>4, <1>5, <1>6, <1>7 DEF Next, StoreStep

(* An operation moves to a place with what belongs there; the operations   *)
(* of the other processes are not touched.                                 *)
LEMMA MoveKeeps ==
  ASSUME TypeInv, NEW p \in Processes, NEW place \in Places,
         pc' = [pc EXCEPT ![p] = place],
         op' = [op EXCEPT ![p] = op'[p]],
         OpOK(p)'
  PROVE  /\ pc' \in [Processes -> Places] /\ op' = [q \in Processes |-> op'[q]]
         /\ \A q \in Processes : OpOK(q)'
<1>1. pc' \in [Processes -> Places] /\ op' = [q \in Processes |-> op'[q]]
  BY DEF TypeInv
<1>2. \A q \in Processes : OpOK(q)'
  <2> SUFFICES ASSUME NEW q \in Processes, q # p PROVE OpOK(q)'
    OBVIOUS
  <2>1. op'[q] = op[q] /\ pc'[q] = pc[q]
    BY DEF TypeInv
  <2> QED
    BY <2>1 DEF TypeInv, OpOK, Changing, Creating
<1> QED
  BY <1>1, <1>2

LEMMA SlotIs ==
  ASSUME TypeInv, NEW p \in Processes, NEW X, op' = [op EXCEPT ![p] = X]
  PROVE  op'[p] = X /\ op' = [op EXCEPT ![p] = op'[p]]
BY DEF TypeInv

LEMMA OpsKeep == TypeInv /\ [Next]_storeVars =>
    (/\ pc \in [Processes -> Places] /\ op = [p \in Processes |-> op[p]]
     /\ \A p \in Processes : OpOK(p))'
<1> SUFFICES ASSUME TypeInv, [Next]_storeVars
    PROVE  /\ pc' \in [Processes -> Places] /\ op' = [p \in Processes |-> op'[p]]
           /\ \A p \in Processes : OpOK(p)'
  OBVIOUS
<1> DEFINE Kept == /\ pc' \in [Processes -> Places] /\ op' = [p \in Processes |-> op'[p]]
                   /\ \A p \in Processes : OpOK(p)'
<1>0. /\ pc \in [Processes -> Places] /\ op = [p \in Processes |-> op[p]]
      /\ \A p \in Processes : OpOK(p)
      /\ MaxNumber \in Nat /\ MaxWrites \in Nat /\ "idle" \in Places
  BY BacklogAssumption DEF TypeInv, Places
<1>1. ASSUME NEW p \in Processes, NEW t \in Titles, Allocate(p, t) PROVE Kept
  <2> DEFINE X == [kind |-> "create", n |-> Next1(p), title |-> t]
  <2>1. Next1(p) \in Numbers
    <3>1. Next1(p) \in Nat \ {0} /\ Next1(p) <= MaxNumber
      BY <1>1, AllocationIsNew DEF Allocate
    <3> QED
      BY <1>0, <3>1 DEF Numbers
  <2>2. op' = [op EXCEPT ![p] = X] /\ pc' = [pc EXCEPT ![p] = "read counter"]
    BY <1>1 DEF Allocate, Goto
  <2>3. X.n \in Numbers /\ X.title \in Titles
    BY <2>1
  <2> HIDE DEF X
  <2>4. op'[p] = X /\ op' = [op EXCEPT ![p] = op'[p]]
    BY <2>2, SlotIs
  <2>5. OpOK(p)'
    BY <1>0, <2>2, <2>3, <2>4 DEF OpOK, Creating
  <2> QED
    BY <2>2, <2>4, <2>5, MoveKeeps DEF Places
<1>2. ASSUME NEW p \in Processes, ReadCounter(p) PROVE Kept
  <2> DEFINE X == [kind |-> "create", n |-> op[p].n, title |-> op[p].title, read |-> yaml]
  <2>1. op' = [op EXCEPT ![p] = X] /\ pc' = [pc EXCEPT ![p] = "stage counter"]
    BY <1>0, <1>2 DEF ReadCounter, Goto
  <2>2. Creating(p) /\ yaml \in Config
    BY <1>2 DEF ReadCounter, TypeInv, TypeOK, OpOK
  <2>3. X.n \in Numbers /\ X.title \in Titles /\ X.read \in Config
    BY <2>2 DEF Creating
  <2> HIDE DEF X
  <2>4. op'[p] = X /\ op' = [op EXCEPT ![p] = op'[p]]
    BY <2>1, SlotIs
  <2>5. OpOK(p)'
    BY <1>0, <2>1, <2>3, <2>4 DEF OpOK, Creating
  <2> QED
    BY <2>1, <2>4, <2>5, MoveKeeps DEF Places
<1>3. ASSUME NEW p \in Processes, StageCounter(p) PROVE Kept
  <2> DEFINE X == [kind |-> "create", n |-> op[p].n, title |-> op[p].title]
  <2>1. op' = [op EXCEPT ![p] = X] /\ pc' = [pc EXCEPT ![p] = "land counter"]
    BY <1>0, <1>3 DEF StageCounter, Goto
  <2>2. Creating(p)
    BY <1>3 DEF StageCounter, TypeInv, OpOK
  <2>3. X.n \in Numbers /\ X.title \in Titles
    BY <2>2 DEF Creating
  <2> HIDE DEF X
  <2>4. op'[p] = X /\ op' = [op EXCEPT ![p] = op'[p]]
    BY <2>1, SlotIs
  <2>5. OpOK(p)'
    BY <1>0, <2>1, <2>3, <2>4 DEF OpOK, Creating
  <2> QED
    BY <2>1, <2>4, <2>5, MoveKeeps DEF Places
<1>4. ASSUME NEW p \in Processes, Return(p) PROVE Kept
  <2>1. op' = [op EXCEPT ![p] = NoOp] /\ pc' = [pc EXCEPT ![p] = "idle"]
    BY <1>4 DEF Return, Goto
  <2>2. op'[p] = NoOp /\ op' = [op EXCEPT ![p] = op'[p]]
    BY <2>1, SlotIs
  <2>3. OpOK(p)'
    BY <1>0, <2>1 DEF OpOK
  <2> QED
    BY <1>0, <2>1, <2>2, <2>3, MoveKeeps
<1>41. ASSUME NEW p \in Processes, LandCounter(p) PROVE Kept
  <2>1. CASE Return(p)
    BY <1>4, <2>1
  <2>2. CASE ~Return(p)
    <3>1. pc[p] = "land counter" /\ pc' = [pc EXCEPT ![p] = "guard"] /\ UNCHANGED op
      BY <1>41, <2>2 DEF LandCounter, Goto
    <3>2. op' = [op EXCEPT ![p] = op'[p]]
      BY <1>0, <3>1
    <3>3. OpOK(p)'
      BY <1>0, <3>1 DEF OpOK, Creating
    <3> QED
      BY <3>1, <3>2, <3>3, MoveKeeps DEF Places
  <2> QED
    BY <2>1, <2>2
<1>5. ASSUME NEW p \in Processes, Guard(p) PROVE Kept
  <2> DEFINE d == [n |-> op[p].n, title |-> op[p].title, item |-> 0, rev |-> 0,
                   dated |-> TRUE, broken |-> FALSE, maker |-> p, writer |-> p]
             X == [kind |-> "create", quoted |-> 0, old |-> <<>>, file |-> d]
  <2>1. CASE Return(p)
    BY <1>4, <2>1
  <2>2. CASE ~Return(p)
    <3>1. op' = [op EXCEPT ![p] = X] /\ pc' = [pc EXCEPT ![p] = "stage"]
      BY <1>0, <1>5, <2>2 DEF Guard, Goto
    <3>2. Creating(p)
      BY <1>5 DEF Guard, TypeInv, OpOK
    <3>3. d \in Draft
      BY <1>0, <3>2 DEF Creating, Draft, Writers
    <3> HIDE DEF d
    <3>4. X = [kind |-> X.kind, quoted |-> X.quoted, old |-> X.old, file |-> X.file]
          /\ X.file = d
      OBVIOUS
    <3> HIDE DEF X
    <3>5. op'[p] = X /\ op' = [op EXCEPT ![p] = op'[p]]
      BY <3>1, SlotIs
    <3>6. OpOK(p)'
      BY <1>0, <3>1, <3>3, <3>4, <3>5 DEF OpOK, Changing
    <3> QED
      BY <3>1, <3>5, <3>6, MoveKeeps DEF Places
  <2> QED
    BY <2>1, <2>2
<1>6. ASSUME NEW p \in Processes, NEW n \in Numbers, NEW quoted \in 1..clock, NEW t \in Titles,
             NEW kind \in {"edit", "hard delete"}, ReadChecked(p, n, quoted, kind, t)
      PROVE  Kept
  <2>1. PICK f \in files :
           /\ op' = [op EXCEPT ![p] =
                       [kind |-> kind, quoted |-> quoted, old |-> Path(f),
                        file |-> [f EXCEPT !.title = t, !.writer = p]]]
           /\ pc' = [pc EXCEPT ![p] = IF kind = "hard delete" THEN "remove" ELSE "stage"]
    BY <1>6 DEF ReadChecked, Goto
  <2> DEFINE d == [f EXCEPT !.title = t, !.writer = p]
             X == [kind |-> kind, quoted |-> quoted, old |-> Path(f), file |-> d]
             place == IF kind = "hard delete" THEN "remove" ELSE "stage"
  <2>2. f \in File
    BY DEF TypeInv, TypeOK
  <2>3. d \in Draft
    BY <1>0, <2>2, EditedIsDraft
  <2> HIDE DEF d
  <2>4. X = [kind |-> X.kind, quoted |-> X.quoted, old |-> X.old, file |-> X.file]
        /\ X.file = d
    OBVIOUS
  <2>5. op' = [op EXCEPT ![p] = X] /\ pc' = [pc EXCEPT ![p] = place]
    BY <2>1 DEF d
  <2>6. place \in Places /\ place \in {"remove", "stage"}
    BY DEF Places
  <2> HIDE DEF X, place
  <2>7. op'[p] = X /\ op' = [op EXCEPT ![p] = op'[p]]
    BY <2>5, SlotIs
  <2>8. OpOK(p)'
    BY <1>0, <2>3, <2>4, <2>5, <2>6, <2>7 DEF OpOK, Changing
  <2> QED
    BY <2>5, <2>6, <2>7, <2>8, MoveKeeps
<1>7. ASSUME NEW p \in Processes, Stage(p) PROVE Kept
  <2> DEFINE f == [op[p].file EXCEPT !.rev = clock', !.item = IF @ = 0 THEN clock' ELSE @]
             X == [op[p] EXCEPT !.file = f]
  <2>1. op' = [op EXCEPT ![p].file = f] /\ pc' = [pc EXCEPT ![p] = "land"]
    BY <1>7 DEF Stage, Goto
  <2>2. Changing(p) /\ op[p].file \in Draft
    BY <1>7 DEF Stage, TypeInv, OpOK
  <2>3. clock' \in 1..MaxWrites
    BY <1>0, <1>7 DEF Stage, TypeInv, TypeOK
  <2>4. f \in File
    BY <1>0, <2>2, <2>3, StagedIsFile
  <2>5. f \in Draft
    BY <1>0, <2>4 DEF File, Draft
  <2> HIDE DEF f
  <2>6. X = [kind |-> X.kind, quoted |-> X.quoted, old |-> X.old, file |-> X.file]
        /\ X.file = f
    BY <2>2 DEF Changing
  <2>7. op' = [op EXCEPT ![p] = X]
    BY <2>1
  <2> HIDE DEF X
  <2>8. op'[p] = X /\ op' = [op EXCEPT ![p] = op'[p]]
    BY <2>7, SlotIs
  <2>9. OpOK(p)'
    BY <1>0, <2>1, <2>5, <2>6, <2>8 DEF OpOK, Changing
  <2> QED
    BY <2>1, <2>8, <2>9, MoveKeeps DEF Places
<1>8. ASSUME NEW p \in Processes, Land(p) PROVE Kept
  <2>1. CASE Return(p)
    BY <1>4, <2>1
  <2>2. CASE ~Return(p)
    <3>1. pc[p] = "land" /\ pc' = [pc EXCEPT ![p] = "unlink"] /\ UNCHANGED op
      BY <1>8, <2>2 DEF Land, Goto
    <3>2. op' = [op EXCEPT ![p] = op'[p]]
      BY <1>0, <3>1
    <3>3. OpOK(p)'
      BY <1>0, <3>1 DEF OpOK, Changing
    <3> QED
      BY <3>1, <3>2, <3>3, MoveKeeps DEF Places
  <2> QED
    BY <2>1, <2>2
<1>9. ASSUME NEW p \in Processes, Unlink(p) \/ RemoveFile(p) \/ Refuse(p) \/ Crash(p)
      PROVE  Kept
  <2>1. Return(p)
    BY <1>9 DEF Unlink, RemoveFile, Refuse, Crash
  <2> QED
    BY <1>4, <2>1
<1>10. CASE UNCHANGED <<pc, op>>
  BY <1>0, <1>10 DEF OpOK, Changing, Creating
<1>11. ASSUME NEW p \in Processes, Rediscover(p) PROVE Kept
  BY <1>10, <1>11 DEF Rediscover
<1>12. CASE GitStep
  BY <1>10, <1>12 DEF GitStep, PullFile, PullEdit, PullRemoval
<1>13. CASE UNCHANGED storeVars
  BY <1>10, <1>13 DEF storeVars
<1> HIDE DEF Kept
<1>14. ASSUME NEW p \in Processes, StoreStep(p) PROVE Kept
  BY <1>1, <1>2, <1>3, <1>41, <1>5, <1>6, <1>7, <1>8, <1>9, <1>11, <1>14 DEF StoreStep
<1> QED
  BY <1>12, <1>13, <1>14 DEF Next, Kept

LEMMA Types == Spec => []TypeInv
<1>1. TypeInv /\ [Next]_storeVars => TypeInv'
  BY FilesKeep, ConfigKeeps, OpsKeep DEF TypeInv, TypeOK, Staged
<1> QED
  BY InitTypes, <1>1, PTL DEF Spec

(* The files stand one to a path, temporary files too, and every counter,  *)
(* redirect and reservation is a number of the project.                    *)
THEOREM BacklogTypeOK == Spec => []TypeOK
<1>1. TypeInv => TypeOK
  BY DEF TypeInv
<1> QED
  BY Types, <1>1, PTL

(* reserveNext, allocate: a number that is handed out is above every number*)
(* on disk, in the redirects, in the hint and in the reservation, and in no*)
(* block that is set aside.                                                *)
THEOREM BacklogNumbersAreFresh == Spec => NumbersAreFresh
<1>1. ASSUME TypeInv, [Next]_storeVars, NEW p \in Processes,
             reserved'[p] \notin {reserved[p], 0}
      PROVE  Fresh(p, reserved'[p])
  <2>0. reserved \in [Processes -> 0..MaxNumber]
    BY <1>1 DEF TypeInv, TypeOK
  <2>1. ASSUME NEW q \in Processes, NEW t \in Titles, Allocate(q, t)
        PROVE  Fresh(p, reserved'[p])
    <3>1. reserved' = [reserved EXCEPT ![q] = Next1(q)]
      BY <2>1 DEF Allocate
    <3>2. q = p /\ reserved'[p] = Next1(p)
      BY <1>1, <2>0, <3>1
    <3> QED
      BY <1>1, <3>2, AllocationIsNew
  <2>2. ASSUME NEW q \in Processes, Rediscover(q) \/ Crash(q) PROVE FALSE
    BY <1>1, <2>0, <2>2 DEF Rediscover, Crash
  <2>3. reserved' # reserved
    BY <1>1
  <2> QED
    BY <1>1, <2>1, <2>2, <2>3 DEF Next, StoreStep, GitStep, storeVars, ReadCounter,
       StageCounter, LandCounter, Guard, ReadChecked, Refuse, Stage, Land, Unlink,
       RemoveFile, PullFile, PullEdit, PullRemoval
<1>2. TypeInv /\ [Next]_storeVars =>
        [\A p \in Processes :
           reserved'[p] \notin {reserved[p], 0} => Fresh(p, reserved'[p])]_storeVars
  BY <1>1
<1> QED
  BY Types, <1>2, PTL DEF Spec, NumbersAreFresh

-----------------------------------------------------------------------------
(* A process that keeps the backlog, beside git and beside the doctor.     *)
(* From the moment it has looked until it has written, every file that     *)
(* claims the number of its item is the one it read or was written last by *)
(* somebody else; what it renames is what it staged.                       *)

ReadOrTheirs(p, S, quoted) == \A g \in S : g.rev = quoted \/ g.writer # p
Numbered(S, n) == {f \in S : f.n = n}

Foreseen(p) ==
    /\ pc[p] \in {"stage", "land", "remove"} =>
         ReadOrTheirs(p, Numbered(files, op[p].file.n), op[p].quoted)
    /\ pc[p] = "land" => \A g \in At(tmps, Path(op[p].file)) : g = op[p].file \/ g.writer # p
    /\ pc[p] \in {"stage", "land"} =>
         /\ op[p].file.writer = p
         /\ op[p].old = <<>> \/ op[p].old[1] = op[p].file.n
    /\ pc[p] = "remove" => op[p].old[1] = op[p].file.n
    /\ pc[p] = "unlink" => /\ ReadOrTheirs(p, At(files, op[p].old), op[p].quoted)
                           /\ op[p].old[1] = op[p].file.n

KeeperInv(p) == Foreseen(p) /\ NoOwnLoss

(* Two files of one number come from two makers, and what the process is   *)
(* about to write is a second one of no maker's; alone, what it renames is *)
(* what it staged.                                                         *)
NotItsMakers(f, g) == g.maker # f.maker \/ g.maker = "git" \/ g.item = f.item

MakersInv(p) ==
    /\ pc[p] \in {"stage", "land"} =>
         \A g \in Numbered(files, op[p].file.n) : NotItsMakers(op[p].file, g)
    /\ pc[p] = "land" => \A g \in At(tmps, Path(op[p].file)) : g = op[p].file
    /\ ClashesNeedTwoWriters

LEMMA ClaimsOfPath == ASSUME NEW path, NEW g \in At(files, path)
                      PROVE  g \in Numbered(files, path[1])
BY DEF At, Path, Numbered

LEMMA LossesAreTheirs ==
  ASSUME NEW p, NEW path, ReadOrTheirs(p, At(files, path), op[p].quoted)
  PROVE  \A c \in Losses(p, path) : c[1] # c[2]
BY DEF ReadOrTheirs, Losses

(* Between two writes: the process looks, or moves on without the files.   *)
LEMMA LookingKeeps ==
  ASSUME TypeInv, NEW p \in Processes, KeeperInv(p),
         \/ \E t \in Titles : Allocate(p, t)
         \/ ReadCounter(p) \/ StageCounter(p) \/ LandCounter(p) \/ Guard(p) \/ Refuse(p)
         \/ Rediscover(p) \/ Crash(p)
         \/ \E n \in Numbers, quoted \in 1..clock, t \in Titles,
               kind \in {"edit", "hard delete"} : ReadChecked(p, n, quoted, kind, t)
  PROVE  KeeperInv(p)' /\ (MakersInv(p) => MakersInv(p)')
<1>0. pc \in [Processes -> Places] /\ op = [q \in Processes |-> op[q]]
  BY DEF TypeInv
<1>1. UNCHANGED <<files, clobbered>>
  BY DEF Allocate, ReadCounter, StageCounter, LandCounter, Guard, Refuse, Rediscover, Crash,
     ReadChecked
<1>2. NoOwnLoss' /\ (MakersInv(p) => ClashesNeedTwoWriters')
  BY <1>1 DEF KeeperInv, MakersInv, NoOwnLoss, ClashesNeedTwoWriters, TwoWriters
<1>3. CASE pc'[p] \in {"idle", "read counter", "stage counter", "land counter", "guard"}
  BY <1>2, <1>3 DEF KeeperInv, MakersInv, Foreseen
<1>4. CASE Guard(p) /\ ~Return(p)
  <2>1. Claims(op[p].n) = {} /\ op'[p].file.n = op[p].n /\ op'[p].old = <<>>
        /\ op'[p].file.writer = p /\ pc'[p] = "stage"
    <3>1. Claims(op[p].n) = {} /\ pc' = [pc EXCEPT ![p] = "stage"]
      BY <1>4 DEF Guard, Goto
    <3>2. op' = [op EXCEPT ![p] =
                  [kind |-> "create", quoted |-> 0, old |-> <<>>,
                   file |-> [n |-> op[p].n, title |-> op[p].title, item |-> 0, rev |-> 0,
                             dated |-> TRUE, broken |-> FALSE, maker |-> p, writer |-> p]]]
      BY <1>4 DEF Guard
    <3>3. op'[p].file.n = op[p].n /\ op'[p].old = <<>> /\ op'[p].file.writer = p
      BY <1>0, <3>2
    <3> QED
      BY <1>0, <3>1, <3>3
  <2>2. Numbered(files', op'[p].file.n) = {}
    BY <1>1, <2>1 DEF Claims, Numbered
  <2>3. Foreseen(p)'
    BY <2>1, <2>2 DEF Foreseen, ReadOrTheirs
  <2> QED
    BY <1>2, <2>1, <2>2, <2>3 DEF KeeperInv, MakersInv
<1>5. ASSUME NEW n \in Numbers, NEW quoted \in 1..clock, NEW t \in Titles,
             NEW kind \in {"edit", "hard delete"}, ReadChecked(p, n, quoted, kind, t)
      PROVE  KeeperInv(p)' /\ (MakersInv(p) => MakersInv(p)')
  <2>1. PICK f \in files :
           /\ Locate(p, n) = {f} /\ Matches(quoted, f)
           /\ op' = [op EXCEPT ![p] =
                       [kind |-> kind, quoted |-> quoted, old |-> Path(f),
                        file |-> [f EXCEPT !.title = t, !.writer = p]]]
           /\ pc' = [pc EXCEPT ![p] = IF kind = "hard delete" THEN "remove" ELSE "stage"]
    BY <1>5 DEF ReadChecked, Goto
  <2>2. f \in File
    BY DEF TypeInv, TypeOK
  <2>3. Claims(f.n) = {f}
    BY <2>1 DEF Locate, Claims
  <2>4. /\ op'[p].quoted = f.rev /\ op'[p].old = <<f.n, f.title>>
        /\ op'[p].file.n = f.n /\ op'[p].file.item = f.item /\ op'[p].file.writer = p
        /\ pc'[p] \in {"remove", "stage"}
    BY <1>0, <2>1, <2>2 DEF Matches, Path, File
  <2>5. Numbered(files', op'[p].file.n) = {f}
    BY <1>1, <2>3, <2>4 DEF Claims, Numbered
  <2>6. ReadOrTheirs(p, Numbered(files', op'[p].file.n), op'[p].quoted)
    BY <2>4, <2>5 DEF ReadOrTheirs
  <2>7. \A g \in Numbered(files', op'[p].file.n) : NotItsMakers(op'[p].file, g)
    BY <2>4, <2>5 DEF NotItsMakers
  <2>8. op'[p].old[1] = op'[p].file.n
    <3>1. <<f.n, f.title>>[1] = f.n
      OBVIOUS
    <3> QED
      BY <2>4, <3>1
  <2>9. Foreseen(p)'
    BY <2>4, <2>6, <2>8 DEF Foreseen
  <2> QED
    BY <1>2, <2>4, <2>7, <2>9 DEF KeeperInv, MakersInv
<1>6. ASSUME Return(p) PROVE pc'[p] = "idle"
  BY <1>0, <1>6 DEF Return, Goto
<1>7. ASSUME NEW t \in Titles, Allocate(p, t) PROVE pc'[p] = "read counter"
  BY <1>0, <1>7 DEF Allocate, Goto
<1>8. ASSUME ReadCounter(p) \/ StageCounter(p) \/ LandCounter(p)
      PROVE  pc'[p] \in {"idle", "stage counter", "land counter", "guard"}
  BY <1>0, <1>6, <1>8 DEF ReadCounter, StageCounter, LandCounter, Goto
<1>9. ASSUME Refuse(p) \/ Rediscover(p) \/ Crash(p) PROVE pc'[p] = "idle"
  BY <1>0, <1>6, <1>9 DEF Refuse, Rediscover, Crash
<1> QED
  BY <1>3, <1>4, <1>5, <1>6, <1>7, <1>8, <1>9

LEMMA StagingKeeps ==
  ASSUME TypeInv, NEW p \in Processes, KeeperInv(p), Stage(p)
  PROVE  KeeperInv(p)' /\ (MakersInv(p) => MakersInv(p)')
<1> DEFINE f == [op[p].file EXCEPT !.rev = clock', !.item = IF @ = 0 THEN clock' ELSE @]
<1>0. pc \in [Processes -> Places] /\ op = [q \in Processes |-> op[q]]
  BY DEF TypeInv
<1>1. pc[p] = "stage" /\ pc'[p] = "land" /\ UNCHANGED <<files, clobbered>>
      /\ tmps' = Put(tmps, f)
  BY <1>0 DEF Stage, Goto
<1>2. Changing(p) /\ op[p].file \in Draft
  BY <1>0, <1>1 DEF TypeInv, OpOK
<1>3. /\ f.n = op[p].file.n /\ (op[p].file.item # 0 => f.item = op[p].file.item)
      /\ f.maker = op[p].file.maker /\ f.writer = op[p].file.writer
  BY <1>2 DEF Draft
<1> HIDE DEF f
<1>4. op'[p].file = f /\ op'[p].quoted = op[p].quoted /\ op'[p].old = op[p].old
  <2>1. op' = [op EXCEPT ![p].file = f]
    BY DEF Stage, f
  <2>2. op'[p] = [op[p] EXCEPT !.file = f]
    BY <1>0, <2>1
  <2> QED
    BY <1>2, <2>2 DEF Changing
<1>5. Numbered(files', op'[p].file.n) = Numbered(files, op[p].file.n)
  BY <1>1, <1>3, <1>4 DEF Numbered
<1>6. ReadOrTheirs(p, Numbered(files', op'[p].file.n), op'[p].quoted)
  <2>1. ReadOrTheirs(p, Numbered(files, op[p].file.n), op[p].quoted)
    BY <1>1 DEF KeeperInv, Foreseen
  <2> QED
    BY <1>4, <1>5, <2>1 DEF ReadOrTheirs
<1>7. ASSUME MakersInv(p)
      PROVE  \A g \in Numbered(files, op[p].file.n) : NotItsMakers(f, g)
  <2>1. \A g \in Numbered(files, op[p].file.n) : g.item # 0
    BY DEF Numbered, TypeInv, TypeOK, File
  <2>2. \A g \in Numbered(files, op[p].file.n) : NotItsMakers(op[p].file, g)
    BY <1>1, <1>7 DEF MakersInv
  <2> QED
    BY <1>3, <2>1, <2>2 DEF NotItsMakers
<1>8. \A g \in At(tmps', Path(f)) : g = f
  BY <1>1 DEF Put, At
<1>9. Foreseen(p)'
  <2>1. /\ op[p].old = <<>> \/ op[p].old[1] = op[p].file.n
        /\ op[p].file.writer = p
    BY <1>1 DEF KeeperInv, Foreseen
  <2>2. At(tmps', Path(op'[p].file)) = At(tmps', Path(f))
    BY <1>4
  <2> QED
    BY <1>1, <1>3, <1>4, <1>5, <1>6, <1>8, <2>1, <2>2 DEF Foreseen
<1>10. NoOwnLoss' /\ (MakersInv(p) => ClashesNeedTwoWriters')
  BY <1>1 DEF KeeperInv, MakersInv, NoOwnLoss, ClashesNeedTwoWriters, TwoWriters
<1> QED
  BY <1>1, <1>4, <1>5, <1>7, <1>8, <1>9, <1>10 DEF KeeperInv, MakersInv

LEMMA LandingKeeps ==
  ASSUME TypeInv, NEW p \in Processes, KeeperInv(p), Land(p)
  PROVE  KeeperInv(p)' /\ (MakersInv(p) => MakersInv(p)')
<1> DEFINE f == op[p].file
           path == Path(f)
<1>0. pc \in [Processes -> Places] /\ op = [q \in Processes |-> op[q]]
  BY DEF TypeInv
<1>1. pc[p] = "land"
  BY DEF Land
<1>2. /\ ReadOrTheirs(p, Numbered(files, f.n), op[p].quoted)
      /\ \A g \in At(tmps, path) : g = f \/ g.writer # p
      /\ op[p].old = <<>> \/ op[p].old[1] = f.n
  BY <1>1 DEF KeeperInv, Foreseen
<1>3. CASE At(tmps, path) = {}
  <2>1. Return(p) /\ UNCHANGED <<files, clobbered>>
    BY <1>3 DEF Land
  <2>2. pc'[p] = "idle"
    BY <1>0, <2>1 DEF Return, Goto
  <2>3. NoOwnLoss' /\ (MakersInv(p) => ClashesNeedTwoWriters')
    BY <2>1 DEF KeeperInv, MakersInv, NoOwnLoss, ClashesNeedTwoWriters
  <2> QED
    BY <2>2, <2>3 DEF KeeperInv, MakersInv, Foreseen
<1>4. CASE At(tmps, path) # {}
  <2>1. PICK g \in At(tmps, path) : At(tmps, path) = {g}
    BY <1>4 DEF At, TypeInv, TypeOK, OnePerPath
  <2>2. /\ files' = (files \ At(files, path)) \cup {g}
        /\ clobbered' = clobbered \cup Losses(p, path) \cup Supplanted(p, {g})
        /\ \/ op[p].old \in {<<>>, path} /\ Return(p)
           \/ op[p].old \notin {<<>>, path} /\ Goto(p, "unlink") /\ UNCHANGED op
    BY <1>4, <2>1 DEF Land
  <2>3. path = <<f.n, f.title>> /\ Path(g) = path
    BY <2>1 DEF Path, At
  <2>m. ASSUME MakersInv(p)
        PROVE  g = f /\ \A h \in Numbered(files, f.n) : NotItsMakers(f, h)
    BY <1>1, <2>1, <2>m DEF MakersInv
  <2>s. \A c \in Supplanted(p, {g}) : c[1] # c[2]
    BY <1>2, <2>1 DEF Supplanted
  <2> HIDE DEF f, path
  <2>4. \A h \in At(files, path) : h \in Numbered(files, f.n)
    BY <2>3, ClaimsOfPath
  <2>5. ReadOrTheirs(p, At(files, path), op[p].quoted)
    BY <1>2, <2>4 DEF ReadOrTheirs
  <2>6. NoOwnLoss'
    <3>1. \A c \in Losses(p, path) : c[1] # c[2]
      BY <2>5, LossesAreTheirs
    <3> QED
      BY <2>2, <2>s, <3>1 DEF KeeperInv, NoOwnLoss
  <2>7. ASSUME MakersInv(p) PROVE ClashesNeedTwoWriters'
    <3>0. files' = (files \ At(files, path)) \cup {f}
      BY <2>2, <2>m, <2>7
    <3> SUFFICES ASSUME NEW a \in files', NEW b \in files', a.n = b.n, a # b
        PROVE  a.maker # b.maker \/ a.maker = "git" \/ a.item = b.item
      BY DEF ClashesNeedTwoWriters, TwoWriters
    <3>1. CASE a \in files /\ b \in files
      BY <2>7, <3>1 DEF MakersInv, ClashesNeedTwoWriters, TwoWriters
    <3>2. CASE a = f /\ b \in files
      <4>1. b \in Numbered(files, f.n)
        BY <3>2 DEF Numbered
      <4> QED
        BY <2>7, <2>m, <3>2, <4>1 DEF NotItsMakers
    <3>3. CASE b = f /\ a \in files
      <4>1. a \in Numbered(files, f.n)
        BY <3>3 DEF Numbered
      <4> QED
        BY <2>7, <2>m, <3>3, <4>1 DEF NotItsMakers
    <3> QED
      BY <3>0, <3>1, <3>2, <3>3
  <2>8. CASE Return(p)
    <3>1. pc'[p] = "idle"
      BY <1>0, <2>8 DEF Return, Goto
    <3> QED
      BY <2>6, <2>7, <3>1 DEF KeeperInv, MakersInv, Foreseen
  <2>9. CASE op[p].old \notin {<<>>, path} /\ Goto(p, "unlink") /\ UNCHANGED op
    <3>1. pc'[p] = "unlink"
      BY <1>0, <2>9 DEF Goto
    <3>2. ASSUME NEW h \in At(files', op[p].old) PROVE h \in Numbered(files, f.n)
      <4>1. h \in files' /\ Path(h) = op[p].old
        BY <3>2 DEF At
      <4>3. h \in files
        BY <2>2, <2>3, <2>9, <4>1
      <4>4. h.n = op[p].old[1]
        BY <4>1 DEF Path
      <4> QED
        BY <1>2, <2>9, <4>3, <4>4 DEF Numbered, f
    <3>3. ReadOrTheirs(p, At(files', op'[p].old), op'[p].quoted)
      BY <1>2, <2>9, <3>2 DEF ReadOrTheirs, f
    <3>4. op'[p].old[1] = op'[p].file.n
      BY <1>2, <2>9 DEF f
    <3> QED
      BY <2>6, <2>7, <3>1, <3>3, <3>4 DEF KeeperInv, MakersInv, Foreseen
  <2> QED
    BY <2>2, <2>8, <2>9
<1> QED
  BY <1>3, <1>4

LEMMA RemovingKeeps ==
  ASSUME TypeInv, NEW p \in Processes, KeeperInv(p), Unlink(p) \/ RemoveFile(p)
  PROVE  KeeperInv(p)' /\ (MakersInv(p) => MakersInv(p)')
<1>0. pc \in [Processes -> Places]
  BY DEF TypeInv
<1>1. /\ files' = files \ At(files, op[p].old)
      /\ clobbered' = clobbered \cup Losses(p, op[p].old) /\ Return(p)
  BY DEF Unlink, RemoveFile
<1>2. ReadOrTheirs(p, At(files, op[p].old), op[p].quoted)
  <2>1. CASE Unlink(p)
    BY <2>1 DEF Unlink, KeeperInv, Foreseen
  <2>2. CASE RemoveFile(p)
    <3>1. /\ op[p].old[1] = op[p].file.n
          /\ ReadOrTheirs(p, Numbered(files, op[p].file.n), op[p].quoted)
      BY <2>2 DEF RemoveFile, KeeperInv, Foreseen
    <3>2. \A g \in At(files, op[p].old) : g \in Numbered(files, op[p].file.n)
      BY <3>1, ClaimsOfPath
    <3> QED
      BY <3>1, <3>2 DEF ReadOrTheirs
  <2> QED
    BY <2>1, <2>2
<1>3. NoOwnLoss'
  <2>1. \A c \in Losses(p, op[p].old) : c[1] # c[2]
    BY <1>2, LossesAreTheirs
  <2> QED
    BY <1>1, <2>1 DEF KeeperInv, NoOwnLoss
<1>4. MakersInv(p) => ClashesNeedTwoWriters'
  BY <1>1 DEF MakersInv, ClashesNeedTwoWriters, TwoWriters
<1>5. pc'[p] = "idle"
  BY <1>0, <1>1 DEF Return, Goto
<1> QED
  BY <1>3, <1>4, <1>5 DEF KeeperInv, MakersInv, Foreseen

LEMMA KeeperSteps ==
  ASSUME TypeInv, NEW p \in Processes, KeeperInv(p), StoreStep(p)
  PROVE  KeeperInv(p)' /\ (MakersInv(p) => MakersInv(p)')
BY LookingKeeps, StagingKeeps, LandingKeeps, RemovingKeeps DEF StoreStep

(* Whatever somebody else removes, or writes in its own name, leaves what  *)
(* the process foresees; and its number is not claimed by a second item of *)
(* one maker when what is new claims the number of what it replaces.       *)
LEMMA OthersForeseen ==
  ASSUME NEW p, Foreseen(p), pc'[p] = pc[p], op'[p] = op[p],
         \A g \in files' : g \in files \/ g.writer # p,
         \A g \in tmps' : g \in tmps \/ g.writer # p
  PROVE  Foreseen(p)'
<1>1. ASSUME NEW n, NEW quoted, ReadOrTheirs(p, Numbered(files, n), quoted)
      PROVE  ReadOrTheirs(p, Numbered(files', n), quoted)
  BY <1>1 DEF ReadOrTheirs, Numbered
<1>2. ASSUME NEW path, NEW quoted, ReadOrTheirs(p, At(files, path), quoted)
      PROVE  ReadOrTheirs(p, At(files', path), quoted)
  BY <1>2 DEF ReadOrTheirs, At
<1>3. pc[p] \in {"stage", "land", "remove"} =>
        ReadOrTheirs(p, Numbered(files', op[p].file.n), op[p].quoted)
  BY <1>1 DEF Foreseen
<1>4. pc[p] = "unlink" => ReadOrTheirs(p, At(files', op[p].old), op[p].quoted)
  BY <1>2 DEF Foreseen
<1>5. pc[p] = "land" =>
        \A g \in At(tmps', Path(op[p].file)) : g = op[p].file \/ g.writer # p
  BY DEF Foreseen, At
<1> QED
  BY <1>3, <1>4, <1>5 DEF Foreseen

(* What git brings in is made by git, or written by git last; or it removes. *)
LEMMA PulledIs ==
  ASSUME TypeInv, GitStep
  PROVE  /\ UNCHANGED <<pc, op, tmps, yaml, ytmp, cfg, reserved, failures, clobbered>>
         /\ \/ files' \subseteq files
            \/ \E new, gone :
                 /\ files' = (files \ gone) \cup {new} /\ new.writer = "git"
                 /\ \/ new.maker = "git" /\ gone = {}
                    \/ \E f \in gone \cap files :
                         /\ new.maker = f.maker /\ new.item = f.item /\ new.n = f.n
                         /\ Path(new) = Path(f) /\ gone = {f}
<1>1. UNCHANGED <<pc, op, tmps, yaml, ytmp, cfg, reserved, failures, clobbered>>
  BY DEF GitStep, PullFile, PullEdit, PullRemoval
<1>2. ASSUME NEW n \in Numbers, NEW t \in Titles, NEW dated \in BOOLEAN,
             NEW broken \in BOOLEAN, PullFile(n, t, dated, broken)
      PROVE  \E new : files' = (files \ {}) \cup {new} /\ new.writer = "git" /\ new.maker = "git"
  <2> DEFINE new == [n |-> n, title |-> t, item |-> clock', rev |-> clock',
                     dated |-> dated, broken |-> broken,
                     maker |-> "git", writer |-> "git"]
  <2>1. new.writer = "git" /\ new.maker = "git"
    OBVIOUS
  <2>2. files' = (files \ {}) \cup {new}
    BY <1>2 DEF PullFile
  <2> HIDE DEF new
  <2> QED
    BY <2>1, <2>2
<1>3. ASSUME NEW f \in files, PullEdit(f)
      PROVE  \E new : /\ files' = (files \ {f}) \cup {new} /\ new.writer = "git"
                      /\ new.maker = f.maker /\ new.item = f.item /\ new.n = f.n
                      /\ Path(new) = Path(f)
  <2> DEFINE new == [f EXCEPT !.rev = clock', !.writer = "git"]
  <2>1. f \in File
    BY DEF TypeInv, TypeOK
  <2>2. /\ new.writer = "git" /\ new.maker = f.maker /\ new.item = f.item
        /\ new.n = f.n /\ new.title = f.title
    BY <2>1 DEF File
  <2>3. files' = (files \ At(files, Path(new))) \cup {new}
    BY <1>3 DEF PullEdit, Put
  <2> HIDE DEF new
  <2>4. Path(new) = Path(f)
    BY <2>2 DEF Path
  <2>5. At(files, Path(new)) = {f}
    BY <2>4 DEF At, TypeInv, TypeOK, OnePerPath
  <2> QED
    BY <2>2, <2>3, <2>4, <2>5
<1>4. CASE \E f \in files : PullEdit(f)
  <2>1. PICK f \in files : PullEdit(f)
    BY <1>4
  <2>2. PICK new : /\ files' = (files \ {f}) \cup {new} /\ new.writer = "git"
                   /\ new.maker = f.maker /\ new.item = f.item /\ new.n = f.n
                   /\ Path(new) = Path(f)
    BY <1>3, <2>1
  <2>3. f \in {f} \cap files
    OBVIOUS
  <2> QED
    BY <1>1, <2>2, <2>3
<1>6. CASE \E f \in files : PullRemoval(f)
  BY <1>1, <1>6 DEF PullRemoval
<1>5. CASE ~\E f \in files : PullEdit(f) \/ PullRemoval(f)
  <2>1. PICK n \in Numbers, t \in Titles, dated \in BOOLEAN, broken \in BOOLEAN :
          PullFile(n, t, dated, broken)
    BY <1>5 DEF GitStep
  <2>2. PICK new : files' = (files \ {}) \cup {new} /\ new.writer = "git" /\ new.maker = "git"
    BY <1>2, <2>1
  <2> QED
    BY <1>1, <2>2
<1> QED
  BY <1>4, <1>5, <1>6

LEMMA PullingKeeps ==
  ASSUME TypeInv, NEW p \in Processes, KeeperInv(p), GitStep
  PROVE  KeeperInv(p)' /\ (MakersInv(p) => MakersInv(p)')
<1>1. UNCHANGED <<pc, op, tmps, clobbered>> /\ p # "git"
  BY PulledIs, BacklogAssumption
<1>2. \A g \in files' : g \in files \/ g.writer = "git"
  BY PulledIs
<1>3. \A g \in files' : g \in files \/ g.writer # p
  BY <1>1, <1>2
<1>4. KeeperInv(p)'
  <2>1. Foreseen(p)'
    BY <1>1, <1>3, OthersForeseen DEF KeeperInv
  <2> QED
    BY <1>1, <2>1 DEF KeeperInv, NoOwnLoss
<1>6. CASE files' \subseteq files
  BY <1>1, <1>4, <1>6 DEF MakersInv, Numbered, ClashesNeedTwoWriters, TwoWriters
<1>5. ASSUME MakersInv(p), ~(files' \subseteq files) PROVE MakersInv(p)'
  <2>0. PICK new, gone :
          /\ files' = (files \ gone) \cup {new} /\ new.writer = "git"
          /\ \/ new.maker = "git" /\ gone = {}
             \/ \E f \in gone \cap files :
                  /\ new.maker = f.maker /\ new.item = f.item /\ new.n = f.n
                  /\ Path(new) = Path(f) /\ gone = {f}
    BY <1>5, PulledIs
  <2>1. ASSUME NEW n, NEW h, \A g \in Numbered(files, n) : NotItsMakers(h, g)
        PROVE  \A g \in Numbered(files', n) : NotItsMakers(h, g)
    BY <2>0, <2>1 DEF Numbered, NotItsMakers
  <2>2. pc[p] \in {"stage", "land"} =>
          \A g \in Numbered(files', op[p].file.n) : NotItsMakers(op[p].file, g)
    BY <1>5, <2>1 DEF MakersInv
  <2>3. ClashesNeedTwoWriters'
    BY <2>0, <1>5 DEF MakersInv, ClashesNeedTwoWriters, TwoWriters
  <2> QED
    BY <1>1, <1>5, <2>2, <2>3 DEF MakersInv
<1> QED
  BY <1>4, <1>5, <1>6

LEMMA StutterKeeps ==
  ASSUME NEW p, KeeperInv(p), UNCHANGED storeVars
  PROVE  KeeperInv(p)' /\ (MakersInv(p) => MakersInv(p)')
<1>1. UNCHANGED <<files, tmps, pc, op, clobbered>>
  BY DEF storeVars
<1>2. Foreseen(p)'
  BY <1>1, OthersForeseen DEF KeeperInv
<1> QED
  BY <1>1, <1>2 DEF KeeperInv, MakersInv, NoOwnLoss, ClashesNeedTwoWriters, Numbered

LEMMA KeeperBegins ==
  ASSUME NEW p \in Processes, Init PROVE KeeperInv(p) /\ MakersInv(p)
<1>1. pc[p] = "idle" /\ clobbered = {} /\ files \in Seeds
  BY DEF Init
<1>2. ClashesNeedTwoWriters
  BY <1>1, BacklogAssumption DEF ClashesNeedTwoWriters
<1> QED
  BY <1>1, <1>2 DEF KeeperInv, MakersInv, Foreseen, NoOwnLoss

LEMMA Alone ==
  ASSUME NEW p, Processes = {p} PROVE Spec => [](KeeperInv(p) /\ MakersInv(p))
<1>1. Init => KeeperInv(p) /\ MakersInv(p)
  BY KeeperBegins
<1>2. TypeInv /\ (KeeperInv(p) /\ MakersInv(p)) /\ [Next]_storeVars
        => (KeeperInv(p) /\ MakersInv(p))'
  <2> SUFFICES ASSUME TypeInv, KeeperInv(p), MakersInv(p), [Next]_storeVars
               PROVE  KeeperInv(p)' /\ MakersInv(p)'
    OBVIOUS
  <2>1. CASE StoreStep(p)
    BY <2>1, KeeperSteps
  <2>2. CASE GitStep
    BY <2>2, PullingKeeps
  <2>3. CASE UNCHANGED storeVars
    BY <2>3, StutterKeeps
  <2> QED
    BY <2>1, <2>2, <2>3 DEF Next
<1> QED
  BY Types, <1>1, <1>2, PTL DEF Spec

(* writeItem, readChecked: while one process keeps the backlog, its        *)
(* optimistic lock loses no write of its own callers, whatever it does,    *)
(* wherever it dies and whatever git does meanwhile.                       *)
THEOREM BacklogNoOwnLoss == ASSUME NEW p, Processes = {p} PROVE Spec => []NoOwnLoss
<1>1. KeeperInv(p) => NoOwnLoss
  BY DEF KeeperInv
<1> QED
  BY Alone, <1>1, PTL

(* Create: the number the one process gives to an item, and any number its *)
(* item gets, is claimed by no other item that it has made.                *)
THEOREM BacklogClashesNeedTwoWriters ==
  ASSUME NEW p, Processes = {p} PROVE Spec => []ClashesNeedTwoWriters
<1>1. MakersInv(p) => ClashesNeedTwoWriters
  BY DEF MakersInv
<1> QED
  BY Alone, <1>1, PTL

-----------------------------------------------------------------------------
(* gintrack doctor --renumber.                                             *)

Paths(S) == {Path(f) : f \in S}
Steps == [old : Numbers \X Titles, n : Numbers]

(* A plan gives numbers that rise.                                         *)
PlanOK(plan) ==
    /\ plan \in Seq(Steps)
    /\ \A i, j \in DOMAIN plan : i # j => plan[i].n # plan[j].n
    /\ \A i \in DOMAIN plan : plan[i].n <= Reserved(plan)

PlanningOK(o) ==
    /\ o = [kind |-> o.kind, read |-> o.read, plan |-> o.plan, losers |-> o.losers]
    /\ o.read \in Config /\ PlanOK(o.plan)
    /\ o.losers \in Seq(Numbers \X Titles) /\ o.losers # <<>>

(* What a commit writes has numbers of its own.                            *)
CommitOK(o) ==
    /\ o = [kind |-> o.kind, writes |-> o.writes, config |-> o.config, removes |-> o.removes,
            answer |-> o.answer, seen |-> o.seen, held |-> o.held, replaced |-> o.replaced,
            saved |-> o.saved, removed |-> o.removed, created |-> o.created]
    /\ o.writes \in Seq(File) /\ o.removes \in Seq(Numbers \X Titles)
    /\ o.config \in Config /\ o.saved \in Staged /\ o.held \in SUBSET File
    /\ o.replaced \in Seq(File) /\ o.removed \in Seq(File) /\ o.created \in Seq(Numbers \X Titles)
    /\ \A i, j \in DOMAIN o.writes : i # j => o.writes[i].n # o.writes[j].n

UndoOK(o) ==
    /\ o = [kind |-> o.kind, replaced |-> o.replaced, saved |-> o.saved, removed |-> o.removed,
            created |-> o.created]
    /\ o.saved \in Staged
    /\ o.replaced \in Seq(File) /\ o.removed \in Seq(File) /\ o.created \in Seq(Numbers \X Titles)

Writing == {"write", "stage write", "land write"}
Configuring == {"config", "stage config", "land config"}
Removing == {"removes", "drop"}
DoctorPlaces == {"idle", "scan", "plan", "confirm", "undo"} \cup Committing

DoctorOK ==
    /\ pc[Doctor] \in DoctorPlaces
    /\ pc[Doctor] = "scan" => op[Doctor].read \in Config
    /\ pc[Doctor] = "plan" => PlanningOK(op[Doctor])
    /\ pc[Doctor] = "confirm" => PlanOK(op[Doctor].plan) /\ op[Doctor].plan # <<>>
    /\ pc[Doctor] \in Committing => /\ CommitOK(op[Doctor])
                                    /\ pc[Doctor] \in Writing <=> op[Doctor].writes # <<>>
    /\ pc[Doctor] = "drop" => op[Doctor].removes # <<>> /\ op[Doctor].held # {}
    /\ pc[Doctor] = "undo" => UndoOK(op[Doctor])

BeforeOK == before # <<>> => \E S \in SUBSET File, y \in Config :
    before = <<[files |-> S, yaml |-> y]>> /\ OnePerPath(S)

RTypeInv == TypeInv /\ IsFiniteSet(files) /\ DoctorOK /\ BeforeOK

(* A renumbering that nobody disturbed, in terms of the files and of       *)
(* project.yaml as they were when it was planned.  As long as it is being  *)
(* planned, rest are the paths that have no number yet.                    *)
Olds(plan) == {plan[i].old : i \in DOMAIN plan}

Planned(B, plan, rest) ==
    /\ Olds(plan) \cup rest \subseteq Paths(B)
    /\ \A i \in DOMAIN plan, f \in B : f.n < plan[i].n
    /\ \A f, g \in B : (f.n = g.n /\ f # g) =>
         Path(f) \in Olds(plan) \cup rest \/ Path(g) \in Olds(plan) \cup rest

(* While it is committed, F the files: what has come, or will, and what has*)
(* gone, or will.                                                          *)
Moved(F, B, o) == (F \ B) \cup Range(o.writes)
Lost(B, o) == {f \in B : Path(f) \in Range(o.removes)} \cup Range(o.removed)

UnderWay(F, B, o) ==
    /\ o.replaced = <<>>
    /\ Range(o.removed) \subseteq B /\ F \cap B = B \ Range(o.removed)
    /\ Paths(F \ B) \subseteq Range(o.created)
    /\ \A path \in Range(o.created), f \in B : f.n < path[1]
    /\ Range(o.removes) \subseteq Paths(B)
    /\ \A m \in Moved(F, B, o), f \in B : f.n < m.n
    /\ \A m, k \in Moved(F, B, o) : m.n = k.n => m = k
    /\ Range(o.writes) \cap F = {}
    /\ {m.item : m \in Moved(F, B, o)} = {f.item : f \in Lost(B, o)}
    /\ \A f \in Lost(B, o) : f.n \in DOMAIN o.config.redirects
    /\ \A f, g \in B \ Lost(B, o) : f.n = g.n => f = g

(* While it is undone: every file from before is there, with its content,  *)
(* or still to be put back, and every file there is one from before or     *)
(* still to be removed.                                                    *)
Alike(f, g) == [f EXCEPT !.writer = "git"] = [g EXCEPT !.writer = "git"]

Undoing(F, y, B, Y, o) ==
    /\ o.replaced = <<>> /\ (o.saved = <<>> \/ o.saved = <<Y>>) /\ (o.saved = <<>> => y = Y)
    /\ Range(o.removed) \subseteq B
    /\ \A f \in B : f \in Range(o.removed) \/ \E g \in F : Alike(f, g)
    /\ \A g \in F : Path(g) \in Range(o.created) \/ \E f \in B : Alike(f, g)
    /\ Paths(B) \cap Range(o.created) = {}

Undisturbed == before # <<>> =>
    LET B == Head(before).files
        Y == Head(before).yaml
        o == op[Doctor]
        here == pc[Doctor]
    IN  /\ here \in {"scan", "plan", "confirm"} => files = B /\ yaml = Y
        /\ here = "plan" => Planned(B, o.plan, Range(o.losers))
        /\ here = "confirm" => Planned(B, o.plan, {})
        /\ here \in Committing => UnderWay(files, B, o)
        /\ here \in {"stage write", "land write"} =>
             Path(Head(o.writes)) \in Range(o.created)
        /\ here = "land write" => At(tmps, Path(Head(o.writes))) = {Head(o.writes)}
        /\ here = "land config" => ytmp = <<o.config>>
        /\ here \in Writing \cup Configuring => yaml = Y
        /\ here \in Writing \cup {"config"} => o.saved = <<>>
        /\ here \in {"stage config", "land config"} \cup Removing => o.saved = <<Y>>
        /\ here \in Removing => yaml = o.config
        /\ here = "drop" => o.held = At(files, Head(o.removes))
        /\ here = "undo" /\ outcome # "undo failed" => Undoing(files, yaml, B, Y, o)

Outcomes ==
    /\ outcome \in {"none", "planned", "refused", "rolled back", "undo failed", "applied"}
    /\ pc[Doctor] # "idle" => outcome \in {"none", "planned", "undo failed"}
    /\ pc[Doctor] \notin {"idle", "undo"} => outcome \in {"none", "planned"}
    /\ outcome \in {"refused", "rolled back", "applied"} => before # <<>>

AtomicInv == Undisturbed /\ Outcomes /\ RenumberIsAtomic

-----------------------------------------------------------------------------
(* The tie-break puts the files that share numbers in one order.           *)
LEMMA EarlierIsOrder ==
  ASSUME TypeInv
  PROVE  /\ \A f \in files : ~Earlier(f, f)
         /\ \A f, g, h \in files : Earlier(f, g) /\ Earlier(g, h) => Earlier(f, h)
         /\ \A f, g \in files : f = g \/ Earlier(f, g) \/ Earlier(g, f)
<1>0. files \subseteq File /\ OnePerPath(files)
  BY DEF TypeInv, TypeOK
<1>1. \A f \in files : f.n \in Int /\ f.title \in Int /\ f.item \in Int /\ f.dated \in BOOLEAN
  <2>1. Titles \subseteq Int /\ Numbers \subseteq Int /\ 1..MaxWrites \subseteq Int
    BY BacklogAssumption DEF Numbers
  <2> QED
    BY <1>0, <2>1 DEF File
<1>2. \A f \in files : ~Earlier(f, f)
  BY <1>1 DEF Earlier, Senior
<1>3. ASSUME NEW f \in files, NEW g \in files, NEW h \in files, Earlier(f, g), Earlier(g, h)
      PROVE  Earlier(f, h)
  <2>1. CASE f.n < g.n \/ g.n < h.n
    BY <1>1, <1>3, <2>1 DEF Earlier
  <2>2. CASE f.n = g.n /\ g.n = h.n
    <3>1. Senior(f, g) /\ Senior(g, h)
      BY <1>1, <1>3, <2>2 DEF Earlier
    <3>2. Senior(f, h)
      BY <1>1, <3>1 DEF Senior
    <3> QED
      BY <2>2, <3>2 DEF Earlier
  <2> QED
    BY <1>1, <1>3, <2>1, <2>2 DEF Earlier
<1>4. ASSUME NEW f \in files, NEW g \in files, f # g PROVE Earlier(f, g) \/ Earlier(g, f)
  <2>1. f.n # g.n \/ f.title # g.title
    BY <1>0, <1>4 DEF OnePerPath, Path
  <2>2. f.n = g.n => Senior(f, g) \/ Senior(g, f)
    BY <1>1, <2>1 DEF Senior
  <2> QED
    BY <1>1, <2>2 DEF Earlier
<1> QED
  BY <1>2, <1>3, <1>4

(* So a finite set of files can be listed in that order: the place of a    *)
(* file is the number of files before it.                                  *)
LEMMA Listed ==
  ASSUME TypeInv, NEW S \in SUBSET files, IsFiniteSet(S)
  PROVE  /\ Cardinality(S) \in Nat
         /\ \E s \in [1..Cardinality(S) -> S] :
               \A i, j \in 1..Cardinality(S) : i < j => Earlier(s[i], s[j])
<1> DEFINE N == Cardinality(S)
           Ahead(x) == {y \in S : Earlier(y, x)}
           r == [x \in S |-> Cardinality(Ahead(x)) + 1]
<1>0. N \in Nat
  BY FS_CardinalityType
<1>1. ASSUME NEW x \in S
      PROVE  IsFiniteSet(Ahead(x)) /\ Cardinality(Ahead(x)) \in Nat /\ Cardinality(Ahead(x)) < N
  <2>1. Ahead(x) \in SUBSET S /\ x \notin Ahead(x)
    BY EarlierIsOrder
  <2>2. IsFiniteSet(Ahead(x)) /\ Cardinality(Ahead(x)) <= N /\ Cardinality(Ahead(x)) # N
    BY <2>1, FS_Subset
  <2> QED
    BY <1>0, <2>2, FS_CardinalityType
<1>2. ASSUME NEW x \in S, NEW y \in S, Earlier(x, y)
      PROVE  Cardinality(Ahead(x)) < Cardinality(Ahead(y))
  <2>1. Ahead(x) \in SUBSET Ahead(y)
    BY <1>2, EarlierIsOrder
  <2>2. x \in Ahead(y) /\ x \notin Ahead(x)
    BY <1>2, EarlierIsOrder
  <2>3. IsFiniteSet(Ahead(y))
    BY <1>1
  <2> HIDE DEF Ahead
  <2>4. Cardinality(Ahead(x)) <= Cardinality(Ahead(y)) /\ Cardinality(Ahead(x)) # Cardinality(Ahead(y))
    BY <2>1, <2>2, <2>3, FS_Subset
  <2> QED
    BY <1>1, <2>4
<1> HIDE DEF Ahead
<1>3. r \in [S -> 1..N]
  BY <1>0, <1>1
<1>4. \A x, y \in S : Earlier(x, y) => r[x] < r[y]
  BY <1>1, <1>2
<1> HIDE DEF r, N
<1>5. \A x, y \in S : r[x] < r[y] => Earlier(x, y)
  <2> SUFFICES ASSUME NEW x \in S, NEW y \in S, r[x] < r[y] PROVE Earlier(x, y)
    OBVIOUS
  <2>1. r[x] \in Int /\ r[y] \in Int /\ x # y
    BY <1>3, <1>0
  <2>2. ~Earlier(y, x)
    BY <1>4, <2>1
  <2> QED
    BY <2>1, <2>2, EarlierIsOrder
<1>6. \A x, y \in S : x # y => r[x] # r[y]
  <2>1. \A x \in S : r[x] \in Int
    BY <1>3, <1>0
  <2> QED
    BY <1>4, <2>1, EarlierIsOrder
<1>7. \A i \in 1..N : \E x \in S : r[x] = i
  <2>1. r \in Injection(S, 1..N)
    BY <1>3, <1>6 DEF Injection, IsInjective
  <2>2. IsFiniteSet(1..N) /\ Cardinality(1..N) = N
    BY <1>0, FS_Interval
  <2>3. r \in Surjection(S, 1..N)
    BY <2>1, <2>2, FS_Injection DEF N
  <2> QED
    BY <2>3 DEF Surjection
<1>8. PICK s \in [1..N -> S] : \A i \in 1..N : r[s[i]] = i
  <2>1. [i \in 1..N |-> CHOOSE x \in S : r[x] = i] \in [1..N -> S]
    BY <1>7
  <2>2. \A i \in 1..N : r[CHOOSE x \in S : r[x] = i] = i
    BY <1>7
  <2> QED
    BY <2>1, <2>2
<1>9. \A i, j \in 1..N : i < j => Earlier(s[i], s[j])
  BY <1>5, <1>8
<1> QED
  BY <1>0, <1>8, <1>9 DEF N

(* The plan lists every file that loses its number, once.                  *)
LEMMA LosersAre ==
  ASSUME TypeInv, IsFiniteSet(files)
  PROVE  /\ Spare \subseteq files
         /\ Losers \in Seq(Spare) /\ Range(Losers) = Spare
         /\ \A i, j \in DOMAIN Losers : i # j => Losers[i] # Losers[j]
<1>1. Spare \in SUBSET files
  BY DEF Spare, Claims
<1>2. IsFiniteSet(Spare)
  BY <1>1, FS_Subset
<1> DEFINE N == Cardinality(Spare)
<1>3. N \in Nat /\ \E s \in [1..N -> Spare] : \A i, j \in 1..N : i < j => Earlier(s[i], s[j])
  BY <1>1, <1>2, Listed
<1>4. Losers \in [1..N -> Spare] /\ \A i, j \in 1..N : i < j => Earlier(Losers[i], Losers[j])
  <2>1. \E s \in [1..N -> Spare] : \A i, j \in DOMAIN s : i < j => Earlier(s[i], s[j])
    BY <1>3
  <2>2. /\ Losers \in [1..N -> Spare]
        /\ \A i, j \in DOMAIN Losers : i < j => Earlier(Losers[i], Losers[j])
    BY <2>1 DEF Losers
  <2> QED
    BY <2>2
<1> HIDE DEF N
<1>5. \A i, j \in 1..N : i # j => Losers[i] # Losers[j]
  <2> SUFFICES ASSUME NEW i \in 1..N, NEW j \in 1..N, i < j PROVE Losers[i] # Losers[j]
    BY <1>3
  <2>1. Earlier(Losers[i], Losers[j]) /\ Losers[i] \in files
    BY <1>1, <1>4
  <2> QED
    BY <2>1, EarlierIsOrder
<1>6. Range(Losers) = Spare
  <2>1. Losers \in Injection(1..N, Spare)
    BY <1>4, <1>5 DEF Injection, IsInjective
  <2>2. IsFiniteSet(1..N) /\ Cardinality(1..N) = N
    BY <1>3, FS_Interval
  <2>3. Losers \in Surjection(1..N, Spare)
    BY <1>2, <2>1, <2>2, FS_Injection DEF N
  <2> QED
    BY <1>4, <2>3 DEF Surjection, Range
<1> QED
  BY <1>1, <1>3, <1>4, <1>5, <1>6

LEMMA EntriesAre ==
  ASSUME NEW S, NEW s \in Seq(S)
  PROVE  DOMAIN s = 1..Len(s) /\ Len(s) \in Nat /\ \A i \in DOMAIN s : s[i] \in S
OBVIOUS

LEMMA TailIs ==
  ASSUME NEW S, NEW s \in Seq(S), s # <<>>
  PROVE  /\ Head(s) \in S /\ Tail(s) \in Seq(S)
         /\ Range(s) = {Head(s)} \cup Range(Tail(s))
         /\ \A i \in DOMAIN Tail(s) : i + 1 \in DOMAIN s /\ Tail(s)[i] = s[i + 1]
         /\ 1 \in DOMAIN s /\ Head(s) = s[1]
<1>1. /\ Head(s) \in S /\ Tail(s) \in Seq(S) /\ Len(Tail(s)) = Len(s) - 1
      /\ \A i \in 1..Len(Tail(s)) : Tail(s)[i] = s[i + 1]
  BY HeadTailProperties
<1>2. Len(s) \in Nat /\ Len(s) # 0 /\ Head(s) = s[1]
  OBVIOUS
<1>3. DOMAIN s = 1..Len(s) /\ DOMAIN Tail(s) = 1..Len(Tail(s))
  BY <1>1
<1>4. \A i \in DOMAIN Tail(s) : i + 1 \in DOMAIN s /\ Tail(s)[i] = s[i + 1]
  BY <1>1, <1>2, <1>3
<1>5. \A i \in DOMAIN s : i = 1 \/ (i - 1 \in DOMAIN Tail(s) /\ s[i] = Tail(s)[i - 1])
  <2> SUFFICES ASSUME NEW i \in DOMAIN s, i # 1
      PROVE  i - 1 \in DOMAIN Tail(s) /\ s[i] = Tail(s)[i - 1]
    OBVIOUS
  <2>1. i - 1 \in DOMAIN Tail(s) /\ (i - 1) + 1 = i
    BY <1>1, <1>2, <1>3
  <2> QED
    BY <1>4, <2>1
<1>6. 1 \in DOMAIN s
  BY <1>2, <1>3
<1>7. Range(s) = {Head(s)} \cup Range(Tail(s))
  <2>1. ASSUME NEW v \in Range(s) PROVE v = Head(s) \/ v \in Range(Tail(s))
    <3>1. PICK i \in DOMAIN s : v = s[i]
      BY <2>1 DEF Range
    <3> QED
      BY <1>2, <1>5, <3>1 DEF Range
  <2>2. Head(s) \in Range(s)
    BY <1>2, <1>6 DEF Range
  <2>3. ASSUME NEW v \in Range(Tail(s)) PROVE v \in Range(s)
    <3>1. PICK i \in DOMAIN Tail(s) : v = Tail(s)[i]
      BY <2>3 DEF Range
    <3> QED
      BY <1>4, <3>1 DEF Range
  <2> QED
    BY <2>1, <2>2, <2>3
<1> QED
  BY <1>1, <1>2, <1>4, <1>6, <1>7

LEMMA AppendIs ==
  ASSUME NEW S, NEW s \in Seq(S), NEW v \in S
  PROVE  /\ Append(s, v) \in Seq(S) /\ Append(s, v) # <<>>
         /\ Range(Append(s, v)) = Range(s) \cup {v}
         /\ DOMAIN Append(s, v) = 1..(Len(s) + 1) /\ DOMAIN s = 1..Len(s) /\ Len(s) \in Nat
         /\ \A i \in DOMAIN s : Append(s, v)[i] = s[i]
         /\ Append(s, v)[Len(s) + 1] = v
         /\ Len(Append(s, v)) = Len(s) + 1
<1>1. /\ Append(s, v) \in Seq(S) /\ Append(s, v) # <<>> /\ Len(Append(s, v)) = Len(s) + 1
      /\ \A i \in 1..Len(s) : Append(s, v)[i] = s[i]
      /\ Append(s, v)[Len(s) + 1] = v
  BY AppendProperties
<1>2. DOMAIN s = 1..Len(s) /\ Len(s) \in Nat /\ DOMAIN Append(s, v) = 1..(Len(s) + 1)
  BY <1>1
<1>3. 1..(Len(s) + 1) = 1..Len(s) \cup {Len(s) + 1}
  BY <1>2
<1>4. Range(Append(s, v)) = Range(s) \cup {v}
  BY <1>1, <1>2, <1>3 DEF Range
<1> QED
  BY <1>1, <1>2, <1>4

LEMMA LastIs ==
  ASSUME NEW S, NEW s \in Seq(S), s # <<>>
  PROVE  Len(s) = 1 <=> Tail(s) = <<>>
<1> DEFINE t == Tail(s)
<1>1. Len(t) = Len(s) - 1 /\ t \in Seq(S) /\ Len(s) \in Nat
  BY HeadTailProperties
<1> HIDE DEF t
<1>2. Len(t) = 0 <=> t = <<>>
  BY <1>1
<1>3. Len(s) = 1 <=> Len(t) = 0
  BY <1>1
<1> QED
  BY <1>2, <1>3 DEF t

LEMMA EmptyIs == Range(<<>>) = {} /\ \A S : <<>> \in Seq(S)
BY DEF Range

LEMMA MappingIs ==
  ASSUME NEW plan, PlanOK(plan)
  PROVE  Mapping(plan) \in [{plan[i].old[1] : i \in DOMAIN plan} -> Numbers]
<1>1. /\ DOMAIN plan = 1..Len(plan) /\ Len(plan) \in Nat
      /\ \A i \in DOMAIN plan : plan[i] \in [old : Numbers \X Titles, n : Numbers]
  BY EntriesAre DEF PlanOK, Steps
<1>2. ASSUME NEW n \in {plan[i].old[1] : i \in DOMAIN plan}
      PROVE  plan[Max({i \in DOMAIN plan : plan[i].old[1] = n})].n \in Numbers
  <2> DEFINE S == {i \in DOMAIN plan : plan[i].old[1] = n}
  <2>1. S \in SUBSET Nat /\ S # {} /\ \A v \in S : v <= Len(plan) /\ v # 0
    BY <1>1
  <2>2. PICK x \in S \cup {0} : \A v \in S \cup {0} : v <= x
    BY <1>1, <2>1, LargestExists
  <2>3. x \in S /\ \A v \in S : x >= v
    BY <2>1, <2>2
  <2>4. Max(S) \in S
    BY <2>3 DEF Max
  <2> QED
    BY <1>1, <2>4
<1> QED
  BY <1>2 DEF Mapping

LEMMA MergedIs ==
  ASSUME NEW c \in Config, NEW plan, PlanOK(plan)
  PROVE  /\ [c EXCEPT !.redirects = Redirected(@, plan)] \in Config
         /\ \A i \in DOMAIN plan :
               plan[i].old[1] \in DOMAIN [c EXCEPT !.redirects = Redirected(@, plan)].redirects
<1>1. PICK S \in SUBSET Numbers : c.redirects \in [S -> Numbers]
  BY DEF Config, RedirectMaps
<1> DEFINE D == {plan[i].old[1] : i \in DOMAIN plan}
<1>2. Mapping(plan) \in [D -> Numbers] /\ D \in SUBSET Numbers
  <2>1. \A i \in DOMAIN plan : plan[i] \in [old : Numbers \X Titles, n : Numbers]
    BY EntriesAre DEF PlanOK, Steps
  <2>2. D \in SUBSET Numbers
    BY <2>1
  <2> QED
    BY <2>2, MappingIs
<1> HIDE DEF D
<1>3. Redirected(c.redirects, plan) \in [D \cup S -> Numbers]
  BY <1>1, <1>2 DEF Redirected
<1>4. D \cup S \in SUBSET Numbers /\ Redirected(c.redirects, plan) \in RedirectMaps
  BY <1>2, <1>3 DEF RedirectMaps
<1>5. /\ [c EXCEPT !.redirects = Redirected(@, plan)] \in Config
      /\ [c EXCEPT !.redirects = Redirected(@, plan)].redirects = Redirected(c.redirects, plan)
  BY <1>4 DEF Config
<1>6. DOMAIN (Redirected(c.redirects, plan)) = D \cup S
  BY <1>3
<1> QED
  BY <1>5, <1>6 DEF D

-----------------------------------------------------------------------------
(* The plan.                                                               *)

(* A finding is gone when all but one of the files are renumbered.         *)
LEMMA ClashNeedsTwo ==
  ASSUME TypeInv, IsFiniteSet(files), NEW f \in files, NEW g \in files, f.n = g.n, f # g
  PROVE  f \in Spare \/ g \in Spare
<1>1. f.n \in Numbers /\ f \in Claims(f.n) /\ g \in Claims(f.n) /\ Claims(f.n) \in SUBSET files
  BY DEF Claims, TypeInv, TypeOK, File
<1>2. IsFiniteSet(Claims(f.n))
  BY <1>1, FS_Subset
<1>3. {f} \in SUBSET Claims(f.n) /\ g \notin {f}
  BY <1>1
<1>4. Cardinality({f}) <= Cardinality(Claims(f.n)) /\ Cardinality(Claims(f.n)) # Cardinality({f})
  BY <1>1, <1>2, <1>3, FS_Subset
<1>5. Cardinality({f}) = 1 /\ Cardinality(Claims(f.n)) \in Nat
  BY <1>2, FS_Singleton, FS_CardinalityType
<1>6. f.n \in Clashes
  BY <1>1, <1>4, <1>5 DEF Clashes
<1>7. Claims(f.n) \ {Keeper(f.n)} \subseteq Spare
  BY <1>6 DEF Spare
<1> QED
  BY <1>1, <1>7

(* One of the files that share a number keeps it.                          *)
LEMMA KeeperIs ==
  ASSUME TypeInv, IsFiniteSet(files), NEW n \in Clashes
  PROVE  Keeper(n) \in Claims(n) /\ Keeper(n) \notin Spare
<1> DEFINE S == Claims(n)
           N == Cardinality(S)
<1>1. S \in SUBSET files /\ IsFiniteSet(S) /\ N > 1
  BY FS_Subset DEF Clashes, Claims
<1>2. PICK s \in [1..N -> S] : \A i, j \in 1..N : i < j => Earlier(s[i], s[j])
  BY <1>1, Listed
<1>3. N \in Nat
  BY <1>1, Listed
<1>4. \A i, j \in 1..N : i # j => s[i] # s[j]
  <2> SUFFICES ASSUME NEW i \in 1..N, NEW j \in 1..N, i < j PROVE s[i] # s[j]
    BY <1>3
  <2>1. Earlier(s[i], s[j]) /\ s[i] \in files
    BY <1>1, <1>2
  <2> QED
    BY <2>1, EarlierIsOrder
<1>5. s \in Surjection(1..N, S)
  <2>1. s \in Injection(1..N, S)
    BY <1>2, <1>4 DEF Injection, IsInjective
  <2>2. IsFiniteSet(1..N) /\ Cardinality(1..N) = N
    BY <1>3, FS_Interval
  <2> QED
    BY <1>1, <2>1, <2>2, FS_Injection
<1> HIDE DEF N
<1>6. 1 \in 1..N /\ s[1] \in S
  BY <1>1, <1>2, <1>3
<1>7. ASSUME NEW g \in S \ {s[1]} PROVE Senior(s[1], g)
  <2>1. PICK i \in 1..N : s[i] = g
    BY <1>5 DEF Surjection
  <2>2. i # 1 /\ 1 < i
    BY <1>3, <1>7, <2>1
  <2>3. Earlier(s[1], g)
    BY <1>2, <1>6, <2>1, <2>2
  <2>4. s[1].n = n /\ g.n = n /\ n \in Nat
    BY <1>6, BacklogAssumption DEF Claims, Clashes, Numbers
  <2> QED
    BY <2>3, <2>4 DEF Earlier
<1>8. Keeper(n) \in S
  BY <1>6, <1>7 DEF Keeper
<1>9. Keeper(n).n = n
  BY <1>8 DEF Claims
<1> HIDE DEF S
<1>10. Keeper(n) \notin Spare
  <2> SUFFICES ASSUME NEW m \in Clashes, Keeper(n) \in Claims(m) \ {Keeper(m)} PROVE FALSE
    BY DEF Spare
  <2>1. m = n
    BY <1>9 DEF Claims
  <2> QED
    BY <2>1
<1> QED
  BY <1>8, <1>10 DEF S

-----------------------------------------------------------------------------
(* What every step of the doctor keeps.                                    *)
LEMMA DoctorHas ==
  ASSUME RTypeInv
  PROVE  /\ Doctor \in Processes /\ op = [p \in Processes |-> op[p]] /\ pc \in [Processes -> Places]
         /\ files \subseteq File /\ OnePerPath(files) /\ IsFiniteSet(files)
         /\ tmps \subseteq File /\ OnePerPath(tmps) /\ ytmp \in Staged
         /\ yaml \in Config /\ clock \in 0..MaxWrites /\ failures \in 0..MaxFailures
         /\ MaxWrites \in Nat /\ MaxNumber \in Nat /\ MaxFailures \in Nat /\ TypeInv
BY BacklogAssumption, RenumberAssumption DEF RTypeInv, TypeInv, TypeOK, Staged

LEMMA BeforeHas ==
  ASSUME RTypeInv, before # <<>>
  PROVE  /\ Head(before).files \subseteq File /\ OnePerPath(Head(before).files)
         /\ Head(before).yaml \in Config
BY DEF RTypeInv, BeforeOK

LEMMA NumbersAreInts == \A f \in File : f.n \in Int
<1>1. Numbers \subseteq Int
  BY BacklogAssumption DEF Numbers
<1> QED
  BY <1>1 DEF File

LEMMA ConfigIsStaged ==
  ASSUME NEW c \in Config
  PROVE  <<c>> \in Staged /\ <<c>> # <<>> /\ Head(<<c>>) = c
BY DEF Staged

LEMMA StagedIs ==
  ASSUME NEW s \in Staged, s # <<>>
  PROVE  Head(s) \in Config /\ s = <<Head(s)>>
<1>1. PICK c \in Config : s = <<c>>
  BY DEF Staged
<1> QED
  BY <1>1

LEMMA DoctorTypes ==
  ASSUME TypeInv, NEW place \in DoctorPlaces,
         pc' = [pc EXCEPT ![Doctor] = place], op' = [op EXCEPT ![Doctor] = op'[Doctor]],
         files' \subseteq File, OnePerPath(files'), tmps' \subseteq File, OnePerPath(tmps'),
         yaml' \in Config, ytmp' \in Staged,
         clock' \in 0..MaxWrites, failures' \in 0..MaxFailures,
         UNCHANGED <<cfg, reserved, pulls>>
  PROVE  TypeInv' /\ pc'[Doctor] = place
<1>1. Doctor \in Processes /\ place \in Places /\ pc \in [Processes -> Places]
  BY RenumberAssumption DEF TypeInv, Places, DoctorPlaces
<1>2. pc'[Doctor] = place
  BY <1>1
<1>3. OpOK(Doctor)'
  BY <1>2 DEF OpOK, DoctorPlaces, Committing
<1>4. /\ pc' \in [Processes -> Places] /\ op' = [q \in Processes |-> op'[q]]
      /\ \A q \in Processes : OpOK(q)'
  BY <1>1, <1>3, MoveKeeps
<1>5. TypeOK'
  BY DEF TypeInv, TypeOK, OnePerPath, Path, Staged
<1> QED
  BY <1>2, <1>4, <1>5 DEF TypeInv

(* Steps that change no file, and nothing that is only counted.            *)
LEMMA DoctorAside ==
  ASSUME RTypeInv, NEW place \in DoctorPlaces,
         pc' = [pc EXCEPT ![Doctor] = place], op' = [op EXCEPT ![Doctor] = op'[Doctor]],
         tmps' \subseteq tmps, ytmp' = ytmp \/ ytmp' = <<>>,
         UNCHANGED <<files, yaml, cfg, reserved, clock, pulls, failures>>
  PROVE  TypeInv' /\ pc'[Doctor] = place /\ IsFiniteSet(files')
<1>1. tmps' \subseteq File /\ OnePerPath(tmps') /\ ytmp' \in Staged
  BY DoctorHas DEF OnePerPath, Staged
<1> QED
  BY <1>1, DoctorHas, DoctorTypes

(* Until it ends, a renumbering has not been done and has not failed.      *)
LEMMA NotYet ==
  ASSUME outcome' \in {"none", "planned", "undo failed"}
  PROVE  RenumberIsAtomic'
BY DEF RenumberIsAtomic, RenumberSettles, FailureChangesNothing

-----------------------------------------------------------------------------
(* The plan.                                                               *)
LEMMA OpenKeeps ==
  ASSUME RTypeInv, AtomicInv, Open(Doctor)
  PROVE  RTypeInv' /\ AtomicInv'
<1>0. /\ pc' = [pc EXCEPT ![Doctor] = "scan"] /\ outcome' = "planned"
      /\ op' = [op EXCEPT ![Doctor] = [kind |-> "renumber", read |-> yaml]]
      /\ before' \in {<<>>, <<[files |-> files, yaml |-> yaml]>>}
      /\ UNCHANGED <<files, tmps, yaml, ytmp, cfg, reserved, clock, pulls, failures>>
  BY DEF Open, Goto
<1>1. op'[Doctor].read = yaml /\ op' = [op EXCEPT ![Doctor] = op'[Doctor]]
  BY <1>0, DoctorHas, SlotIs
<1>2. TypeInv' /\ pc'[Doctor] = "scan" /\ IsFiniteSet(files')
  BY <1>0, <1>1, DoctorAside DEF DoctorPlaces
<1>3. DoctorOK'
  BY <1>0, <1>1, <1>2, DoctorHas DEF DoctorOK, DoctorPlaces, Committing
<1>4. BeforeOK'
  BY <1>0, DoctorHas DEF BeforeOK
<1>5. RTypeInv'
  BY <1>2, <1>3, <1>4 DEF RTypeInv
<1>6. Undisturbed'
  <2> SUFFICES ASSUME before' # <<>> PROVE Undisturbed'
    BY DEF Undisturbed
  <2>1. Head(before').files = files /\ Head(before').yaml = yaml
    BY <1>0
  <2> QED
    BY <1>0, <1>2, <2>1 DEF Undisturbed, Committing, Writing, Configuring, Removing
<1>7. Outcomes' /\ RenumberIsAtomic'
  BY <1>0, <1>2, NotYet DEF Outcomes
<1> QED
  BY <1>5, <1>6, <1>7 DEF AtomicInv

(* It ends, and says how; nothing on disk has changed meanwhile.           *)
LEMMA EndIs ==
  ASSUME RTypeInv, Return(Doctor),
         UNCHANGED <<files, tmps, yaml, ytmp, cfg, reserved, clock, pulls>>,
         failures' \in 0..MaxFailures, before' \in {before, <<>>}
  PROVE  RTypeInv' /\ pc'[Doctor] = "idle" /\ Undisturbed'
<1>1. pc' = [pc EXCEPT ![Doctor] = "idle"] /\ op' = [op EXCEPT ![Doctor] = op'[Doctor]]
  BY DoctorHas, SlotIs DEF Return, Goto
<1>2. TypeInv' /\ pc'[Doctor] = "idle"
  BY <1>1, DoctorTypes, DoctorHas DEF DoctorPlaces
<1>3. DoctorOK'
  BY <1>2 DEF DoctorOK, DoctorPlaces, Committing
<1>4. BeforeOK'
  BY DEF BeforeOK, RTypeInv
<1>5. RTypeInv'
  BY <1>2, <1>3, <1>4, DoctorHas DEF RTypeInv
<1>6. Undisturbed'
  BY <1>2 DEF Undisturbed, Committing, Writing, Configuring, Removing
<1> QED
  BY <1>2, <1>5, <1>6

(* What the scan finds: the files that lose their number.                  *)
LEMMA ScanIs ==
  ASSUME TypeInv, IsFiniteSet(files), Clashes # {}
  PROVE  LET losers == [i \in DOMAIN Losers |-> Path(Losers[i])]
         IN  /\ losers \in Seq(Numbers \X Titles) /\ losers # <<>>
             /\ Range(losers) = Paths(Spare) /\ Spare \subseteq files
<1> DEFINE losers == [i \in DOMAIN Losers |-> Path(Losers[i])]
<1>1. /\ Spare \subseteq files /\ Losers \in Seq(Spare) /\ Range(Losers) = Spare
      /\ files \subseteq File
  BY LosersAre DEF TypeInv, TypeOK
<1>2. /\ DOMAIN Losers = 1..Len(Losers) /\ Len(Losers) \in Nat
      /\ \A i \in DOMAIN Losers : Losers[i] \in Spare
  BY <1>1, EntriesAre
<1>3. \A f \in Spare : Path(f) \in Numbers \X Titles
  BY <1>1 DEF Path, File
<1>4. losers \in Seq(Numbers \X Titles) /\ DOMAIN losers = DOMAIN Losers
  BY <1>2, <1>3
<1>5. Range(losers) = Paths(Spare)
  BY <1>1, <1>4 DEF Range, Paths
<1>6. Spare # {}
  <2>1. PICK n \in Clashes : Cardinality(Claims(n)) > 1
    BY DEF Clashes
  <2>2. Keeper(n) \in Claims(n) /\ Claims(n) \in SUBSET files
    BY KeeperIs DEF Claims
  <2>3. Claims(n) # {Keeper(n)}
    <3>1. Cardinality({Keeper(n)}) = 1
      BY FS_Singleton
    <3> QED
      BY <2>1, <3>1
  <2> QED
    BY <2>2, <2>3 DEF Spare
<1>7. losers # <<>>
  <2>1. Paths(Spare) # {}
    BY <1>6 DEF Paths
  <2> QED
    BY <1>5, <2>1, EmptyIs
<1> QED
  BY <1>1, <1>4, <1>5, <1>7

LEMMA EmptyPlanned ==
  ASSUME NEW B, NEW rest, rest \subseteq Paths(B),
         \A f, g \in B : f.n = g.n /\ f # g => Path(f) \in rest \/ Path(g) \in rest
  PROVE  Planned(B, <<>>, rest)
<1> DEFINE none == <<>>
<1>1. Olds(none) = {} /\ DOMAIN none = {}
  BY DEF Olds
<1> HIDE DEF none
<1>2. Planned(B, none, rest)
  BY <1>1 DEF Planned
<1> QED
  BY <1>2 DEF none

LEMMA FindDuplicatesKeeps ==
  ASSUME RTypeInv, AtomicInv, FindDuplicates(Doctor)
  PROVE  RTypeInv' /\ AtomicInv'
<1>1. CASE Clashes = {}
  <2>1. /\ Return(Doctor) /\ outcome' = "none"
        /\ UNCHANGED <<files, tmps, yaml, ytmp, cfg, reserved, clock, pulls, failures, before>>
    BY <1>1 DEF FindDuplicates
  <2>2. RTypeInv' /\ pc'[Doctor] = "idle" /\ Undisturbed'
    BY <2>1, EndIs, DoctorHas
  <2> QED
    BY <2>1, <2>2, NotYet DEF AtomicInv, Outcomes
<1>2. CASE Clashes # {}
  <2> DEFINE losers == [i \in DOMAIN Losers |-> Path(Losers[i])]
             o == [kind |-> "renumber", read |-> op[Doctor].read, plan |-> <<>>, losers |-> losers]
  <2>1. /\ pc[Doctor] = "scan" /\ pc' = [pc EXCEPT ![Doctor] = "plan"]
        /\ op' = [op EXCEPT ![Doctor] = o]
        /\ UNCHANGED <<files, tmps, yaml, ytmp, cfg, reserved, clock, pulls, failures, before, outcome>>
    BY <1>2 DEF FindDuplicates, Goto
  <2>2. /\ losers \in Seq(Numbers \X Titles) /\ losers # <<>>
        /\ Range(losers) = Paths(Spare) /\ Spare \subseteq files
    BY <1>2, ScanIs DEF RTypeInv
  <2> HIDE DEF losers
  <2>3. op'[Doctor] = o /\ op' = [op EXCEPT ![Doctor] = op'[Doctor]]
    BY <2>1, DoctorHas, SlotIs
  <2>4. TypeInv' /\ pc'[Doctor] = "plan" /\ IsFiniteSet(files')
    BY <2>1, <2>3, DoctorAside DEF DoctorPlaces
  <2>5. PlanOK(<<>>)
    BY EmptyIs DEF PlanOK
  <2>6. PlanningOK(op'[Doctor])
    BY <2>1, <2>2, <2>3, <2>5 DEF RTypeInv, DoctorOK, PlanningOK
  <2>7. RTypeInv'
    BY <2>1, <2>4, <2>6 DEF RTypeInv, DoctorOK, BeforeOK, DoctorPlaces, Committing
  <2>8. Undisturbed'
    <3> SUFFICES ASSUME before # <<>> PROVE Undisturbed'
      BY <2>1 DEF Undisturbed
    <3>1. files = Head(before).files /\ yaml = Head(before).yaml
      BY <2>1 DEF AtomicInv, Undisturbed
    <3>2. \A f, g \in files : f.n = g.n /\ f # g => f \in Spare \/ g \in Spare
      BY ClashNeedsTwo, DoctorHas
    <3>3. Planned(files, <<>>, Paths(Spare))
      <4>2. \A f, g \in files : f.n = g.n /\ f # g => Path(f) \in Paths(Spare) \/ Path(g) \in Paths(Spare)
        BY <3>2 DEF Paths
      <4>3. Paths(Spare) \subseteq Paths(files)
        BY <2>2 DEF Paths
      <4> QED
        BY <4>2, <4>3, EmptyPlanned
    <3>4. Planned(files, op'[Doctor].plan, Range(op'[Doctor].losers))
      <4>1. op'[Doctor].plan = <<>> /\ op'[Doctor].losers = losers
        BY <2>3
      <4> QED
        BY <2>2, <3>3, <4>1
    <3>5. UNCHANGED <<files, yaml, before>>
      BY <2>1
    <3> QED
      BY <2>4, <3>1, <3>4, <3>5 DEF Undisturbed, Committing, Writing, Configuring, Removing
  <2>9. Outcomes' /\ RenumberIsAtomic'
    BY <2>1, <2>4, NotYet DEF AtomicInv, Outcomes
  <2> QED
    BY <2>7, <2>8, <2>9 DEF AtomicInv
<1> QED
  BY <1>1, <1>2

(* A number is given above everything the planner can see.                 *)
LEMMA NumberIsNew ==
  ASSUME RTypeInv, GiveNumber(Doctor)
  PROVE  LET o == op[Doctor]
             q == op'[Doctor]
             r == o.read.redirects
             old == Head(o.losers)
         IN  \E n \in Numbers :
               /\ q.plan = Append(o.plan, [old |-> old, n |-> n])
               /\ \A f \in files : f.n < n
               /\ Reserved(o.plan) < n /\ o.read.counter < n
               /\ \A k \in DOMAIN r : k < n /\ r[k] < n
               /\ op' = [op EXCEPT ![Doctor] = q]
               /\ IF Len(o.losers) = 1
                  THEN pc' = [pc EXCEPT ![Doctor] = "confirm"]
                  ELSE /\ q = [o EXCEPT !.plan = q.plan, !.losers = Tail(o.losers)]
                       /\ UNCHANGED pc
<1> DEFINE o == op[Doctor]
           q == op'[Doctor]
           r == o.read.redirects
           old == Head(o.losers)
           given == {Reserved(o.plan)}
           taken == {f.n : f \in files} \cup given \cup DOMAIN r \cup Range(r)
           n == NextNumber(taken, o.read.counter, Blocks)
           plan == Append(o.plan, [old |-> old, n |-> n])
<1>0. /\ pc[Doctor] = "plan" /\ n <= MaxNumber
      /\ IF Len(o.losers) = 1
         THEN /\ op' = [op EXCEPT ![Doctor] = [kind |-> "renumber", plan |-> plan]]
              /\ pc' = [pc EXCEPT ![Doctor] = "confirm"]
         ELSE /\ op' = [op EXCEPT ![Doctor].plan = plan, ![Doctor].losers = Tail(o.losers)]
              /\ UNCHANGED pc
  BY DoctorHas DEF GiveNumber, Goto
<1>1. PlanningOK(o) /\ files \subseteq File /\ MaxNumber \in Nat
      /\ op = [p \in Processes |-> op[p]] /\ Doctor \in Processes
  BY <1>0, DoctorHas DEF RTypeInv, DoctorOK
<1>2. PICK S \in SUBSET Numbers : r \in [S -> Numbers]
  BY <1>1 DEF PlanningOK, Config, RedirectMaps
<1>3. Reserved(o.plan) \in 0..MaxNumber
  <2>1. CASE o.plan = <<>>
    BY <1>1, <2>1 DEF Reserved
  <2>2. CASE o.plan # <<>>
    <3>1. o.plan \in Seq(Steps) /\ Len(o.plan) \in Nat \ {0} /\ DOMAIN o.plan = 1..Len(o.plan)
      BY <1>1, <2>2 DEF PlanningOK, PlanOK
    <3>2. o.plan[Len(o.plan)] \in Steps
      BY <3>1
    <3> QED
      BY <1>1, <2>2, <3>2 DEF Reserved, Steps, Numbers
  <2> QED
    BY <2>1, <2>2
<1>4. taken \in SUBSET (0..MaxNumber)
  <2>1. Numbers \subseteq 0..MaxNumber
    BY <1>1 DEF Numbers
  <2> QED
    BY <1>1, <1>2, <1>3, <2>1 DEF File, Range
<1>5. o.read.counter \in 0..MaxNumber /\ Blocks \in SUBSET ((0..MaxNumber) \X (0..MaxNumber))
  BY <1>1, BacklogAssumption DEF PlanningOK, Config
<1> HIDE DEF o, q, r, taken
<1>6. n \in Nat \ {0} /\ \A v \in taken \cup {o.read.counter} : v < n
  BY <1>1, <1>4, <1>5, NextNumberIsNew
<1> HIDE DEF n
<1>7. n \in Numbers
  BY <1>0, <1>1, <1>6 DEF Numbers
<1>8. /\ \A f \in files : f.n < n
      /\ Reserved(o.plan) < n /\ o.read.counter < n
      /\ \A k \in DOMAIN r : k < n /\ r[k] < n
  BY <1>6 DEF taken, Range
<1>9. CASE Len(o.losers) = 1
  <2>1. q = [kind |-> "renumber", plan |-> plan] /\ op' = [op EXCEPT ![Doctor] = q]
    BY <1>0, <1>1, <1>9 DEF q
  <2> QED
    BY <1>0, <1>7, <1>8, <1>9, <2>1 DEF o, q, r
<1>10. CASE Len(o.losers) # 1
  <2>1. q = [o EXCEPT !.plan = plan, !.losers = Tail(o.losers)] /\ op' = [op EXCEPT ![Doctor] = q]
    BY <1>0, <1>1, <1>10 DEF o, q
  <2>2. q.plan = plan
    BY <1>1, <2>1 DEF PlanningOK
  <2> QED
    BY <1>0, <1>7, <1>8, <1>10, <2>1, <2>2 DEF o, q, r
<1> QED
  BY <1>9, <1>10

LEMMA LongerPlan ==
  ASSUME NEW plan, PlanOK(plan), NEW old \in Numbers \X Titles, NEW n \in Numbers,
         Reserved(plan) < n
  PROVE  LET longer == Append(plan, [old |-> old, n |-> n])
         IN  /\ PlanOK(longer) /\ longer # <<>> /\ Olds(longer) = Olds(plan) \cup {old}
             /\ \A i \in DOMAIN longer : longer[i].n = n \/ (i \in DOMAIN plan /\ longer[i] = plan[i])
<1> DEFINE step == [old |-> old, n |-> n]
           longer == Append(plan, step)
<1>1. step \in Steps /\ plan \in Seq(Steps)
  BY DEF Steps, PlanOK
<1>2. /\ longer \in Seq(Steps) /\ longer # <<>>
      /\ DOMAIN longer = 1..(Len(plan) + 1) /\ DOMAIN plan = 1..Len(plan) /\ Len(plan) \in Nat
      /\ \A i \in DOMAIN plan : longer[i] = plan[i]
      /\ longer[Len(plan) + 1] = step /\ Len(longer) = Len(plan) + 1
  BY <1>1, AppendIs
<1> HIDE DEF longer
<1>3. \A i \in DOMAIN longer : i = Len(plan) + 1 \/ i \in DOMAIN plan
  BY <1>2
<1>4. Reserved(longer) = n
  BY <1>2 DEF Reserved
<1>5. n \in Int /\ Reserved(plan) \in Int /\ \A i \in DOMAIN plan : plan[i].n \in Int
  <2>1. Numbers \subseteq Int
    BY BacklogAssumption DEF Numbers
  <2>2. \A i \in DOMAIN plan : plan[i].n \in Int
    <3>1. \A i \in DOMAIN plan : plan[i] \in Steps
      BY <1>1, EntriesAre
    <3>2. \A v \in Steps : v.n \in Int
      BY <2>1 DEF Steps
    <3> QED
      BY <3>1, <3>2
  <2>3. plan # <<>> => Len(plan) \in DOMAIN plan
    BY <1>1
  <2> QED
    BY <2>1, <2>2, <2>3 DEF Reserved
<1>6. \A i \in DOMAIN plan : plan[i].n < n
  BY <1>5 DEF PlanOK
<1>7. \A i, j \in DOMAIN longer : i # j => longer[i].n # longer[j].n
  <2> SUFFICES ASSUME NEW i \in DOMAIN longer, NEW j \in DOMAIN longer, i # j
      PROVE  longer[i].n # longer[j].n
    OBVIOUS
  <2>1. CASE i \in DOMAIN plan /\ j \in DOMAIN plan
    BY <1>2, <2>1 DEF PlanOK
  <2>2. CASE i \in DOMAIN plan /\ j = Len(plan) + 1
    BY <1>2, <1>5, <1>6, <2>2
  <2>3. CASE i = Len(plan) + 1 /\ j \in DOMAIN plan
    BY <1>2, <1>5, <1>6, <2>3
  <2> QED
    BY <1>3, <2>1, <2>2, <2>3
<1>8. \A i \in DOMAIN longer : longer[i].n <= Reserved(longer)
  BY <1>2, <1>3, <1>4, <1>5, <1>6
<1>9. Olds(longer) = Olds(plan) \cup {old}
  <2>1. DOMAIN longer = DOMAIN plan \cup {Len(plan) + 1}
    BY <1>2
  <2>2. longer[Len(plan) + 1].old = old /\ \A i \in DOMAIN plan : longer[i].old = plan[i].old
    BY <1>2
  <2> QED
    BY <2>1, <2>2 DEF Olds
<1>10. \A i \in DOMAIN longer : longer[i].n = n \/ (i \in DOMAIN plan /\ longer[i] = plan[i])
  BY <1>2, <1>3
<1> QED
  BY <1>2, <1>7, <1>8, <1>9, <1>10 DEF PlanOK, longer

LEMMA GiveNumberKeeps ==
  ASSUME RTypeInv, AtomicInv, GiveNumber(Doctor)
  PROVE  RTypeInv' /\ AtomicInv'
<1> DEFINE o == op[Doctor]
           q == op'[Doctor]
           old == Head(o.losers)
<1>0. /\ pc[Doctor] = "plan"
      /\ UNCHANGED <<files, tmps, yaml, ytmp, cfg, reserved, clock, pulls, failures, before, outcome>>
  BY DEF GiveNumber, history
<1>1. PlanningOK(o)
  BY <1>0 DEF RTypeInv, DoctorOK
<1>2. PICK n \in Numbers :
        /\ q.plan = Append(o.plan, [old |-> old, n |-> n])
        /\ \A f \in files : f.n < n
        /\ Reserved(o.plan) < n
        /\ op' = [op EXCEPT ![Doctor] = q]
        /\ IF Len(o.losers) = 1
           THEN pc' = [pc EXCEPT ![Doctor] = "confirm"]
           ELSE /\ q = [o EXCEPT !.plan = q.plan, !.losers = Tail(o.losers)]
                /\ UNCHANGED pc
  BY NumberIsNew
<1> HIDE DEF o, q, old
<1>3. /\ old \in Numbers \X Titles /\ Tail(o.losers) \in Seq(Numbers \X Titles)
      /\ Range(o.losers) = {old} \cup Range(Tail(o.losers))
  BY <1>1, TailIs DEF PlanningOK, old
<1>4. /\ PlanOK(q.plan) /\ q.plan # <<>> /\ Olds(q.plan) = Olds(o.plan) \cup {old}
      /\ \A i \in DOMAIN q.plan : q.plan[i].n = n \/ (i \in DOMAIN o.plan /\ q.plan[i] = o.plan[i])
  <2>1. PlanOK(o.plan)
    BY <1>1 DEF PlanningOK
  <2>2. q.plan = Append(o.plan, [old |-> old, n |-> n]) /\ Reserved(o.plan) < n /\ n \in Numbers
    BY <1>2
  <2> QED
    BY <1>3, <2>1, <2>2, LongerPlan
<1>a. o.losers \in Seq(Numbers \X Titles) /\ o.losers # <<>>
  BY <1>1 DEF PlanningOK
<1>b. Len(o.losers) \in Nat \ {0} /\ Len(Tail(o.losers)) = Len(o.losers) - 1
      /\ (Len(Tail(o.losers)) = 0 <=> Tail(o.losers) = <<>>)
  <2>1. /\ Len(Tail(o.losers)) = Len(o.losers) - 1 /\ Tail(o.losers) \in Seq(Numbers \X Titles)
    BY <1>a, HeadTailProperties
  <2>2. \A s \in Seq(Numbers \X Titles) : Len(s) \in Nat /\ (Len(s) = 0 <=> s = <<>>)
    OBVIOUS
  <2> QED
    BY <1>a, <2>1, <2>2
<1>5. before # <<>> =>
        /\ files = Head(before).files /\ yaml = Head(before).yaml
        /\ Planned(files, o.plan, {old} \cup Range(Tail(o.losers)))
  BY <1>0, <1>3 DEF AtomicInv, Undisturbed, o
<1>6. before # <<>> => Planned(files, q.plan, Range(Tail(o.losers)))
  <2> SUFFICES ASSUME before # <<>> PROVE Planned(files, q.plan, Range(Tail(o.losers)))
    OBVIOUS
  <2>1. \A i \in DOMAIN q.plan, f \in files : f.n < q.plan[i].n
    BY <1>2, <1>4, <1>5 DEF Planned
  <2>2. Olds(q.plan) \cup Range(Tail(o.losers)) = Olds(o.plan) \cup ({old} \cup Range(Tail(o.losers)))
    BY <1>4
  <2> QED
    BY <1>5, <2>1, <2>2 DEF Planned
<1>7. CASE Len(o.losers) = 1
  <2>1. TypeInv' /\ pc'[Doctor] = "confirm" /\ IsFiniteSet(files')
    BY <1>0, <1>2, <1>7, DoctorAside DEF DoctorPlaces, q
  <2>2. RTypeInv'
    BY <1>0, <1>4, <2>1 DEF RTypeInv, DoctorOK, BeforeOK, DoctorPlaces, Committing, q
  <2>3. Range(Tail(o.losers)) = {}
    <3>1. Tail(o.losers) = <<>>
      BY <1>7, <1>b
    <3> QED
      BY <3>1, EmptyIs
  <2>4. Undisturbed'
    BY <1>0, <1>5, <1>6, <2>1, <2>3 DEF Undisturbed, Committing, Writing, Configuring, Removing, q
  <2>5. Outcomes' /\ RenumberIsAtomic'
    BY <1>0, <2>1, NotYet DEF AtomicInv, Outcomes
  <2> QED
    BY <2>2, <2>4, <2>5 DEF AtomicInv
<1>8. CASE Len(o.losers) # 1
  <2>1. pc' = [pc EXCEPT ![Doctor] = "plan"]
    BY <1>0, <1>2, <1>8, DoctorHas
  <2>2. TypeInv' /\ pc'[Doctor] = "plan" /\ IsFiniteSet(files')
    BY <1>0, <1>2, <2>1, DoctorAside DEF DoctorPlaces, q
  <2>3. Tail(o.losers) # <<>>
    BY <1>8, <1>b
  <2>4. q.losers = Tail(o.losers) /\ PlanningOK(q)
    <3>1. q = [kind |-> o.kind, read |-> o.read, plan |-> q.plan, losers |-> Tail(o.losers)]
      <4>1. q = [o EXCEPT !.plan = q.plan, !.losers = Tail(o.losers)]
        BY <1>2, <1>8
      <4>2. o = [kind |-> o.kind, read |-> o.read, plan |-> o.plan, losers |-> o.losers]
        BY <1>1 DEF PlanningOK
      <4> QED
        BY <4>1, <4>2
    <3>2. /\ q.read = o.read /\ q.losers = Tail(o.losers)
          /\ q = [kind |-> q.kind, read |-> q.read, plan |-> q.plan, losers |-> q.losers]
      BY <3>1
    <3>3. o.read \in Config
      BY <1>1 DEF PlanningOK
    <3> QED
      BY <1>3, <1>4, <2>3, <3>2, <3>3 DEF PlanningOK
  <2>5. RTypeInv'
    BY <1>0, <2>2, <2>4 DEF RTypeInv, DoctorOK, BeforeOK, DoctorPlaces, Committing, q
  <2>6. Undisturbed'
    BY <1>0, <1>5, <1>6, <2>2, <2>4 DEF Undisturbed, Committing, Writing, Configuring, Removing, q
  <2>7. Outcomes' /\ RenumberIsAtomic'
    BY <1>0, <2>2, NotYet DEF AtomicInv, Outcomes
  <2> QED
    BY <2>5, <2>6, <2>7 DEF AtomicInv
<1> QED
  BY <1>7, <1>8

LEMMA GiveUpKeeps ==
  ASSUME RTypeInv, AtomicInv, GiveUp(Doctor)
  PROVE  RTypeInv' /\ AtomicInv'
<1>0. /\ pc[Doctor] = "confirm" /\ Return(Doctor)
      /\ outcome' = IF before = <<>> THEN "none" ELSE "refused"
      /\ UNCHANGED <<files, tmps, yaml, ytmp, cfg, reserved, clock, pulls, failures, before>>
  BY DEF GiveUp, Ends
<1>1. RTypeInv' /\ pc'[Doctor] = "idle" /\ Undisturbed'
  BY <1>0, EndIs, DoctorHas
<1>2. before # <<>> => files = Head(before).files /\ yaml = Head(before).yaml
  BY <1>0 DEF AtomicInv, Undisturbed
<1>3. RenumberIsAtomic'
  BY <1>0, <1>2 DEF RenumberIsAtomic, RenumberSettles, FailureChangesNothing
<1>4. Outcomes'
  BY <1>0, <1>1 DEF Outcomes
<1> QED
  BY <1>1, <1>3, <1>4 DEF AtomicInv

LEMMA DeathKeeps ==
  ASSUME RTypeInv, AtomicInv, DoctorDies
  PROVE  RTypeInv' /\ AtomicInv'
<1>0. /\ Return(Doctor) /\ outcome' = "none" /\ before' = <<>>
      /\ failures < MaxFailures /\ failures' = failures + 1
      /\ UNCHANGED <<files, tmps, yaml, ytmp, cfg, reserved, clock, pulls>>
  BY DEF DoctorDies
<1>1. failures' \in 0..MaxFailures
  BY <1>0, DoctorHas
<1>2. RTypeInv' /\ pc'[Doctor] = "idle" /\ Undisturbed'
  BY <1>0, <1>1, EndIs
<1> QED
  BY <1>0, <1>2, NotYet DEF AtomicInv, Outcomes

LEMMA PreparedIs ==
  ASSUME RTypeInv, Prepare(Doctor)
  PROVE  LET o == op'[Doctor]
             plan == op[Doctor].plan
         IN  /\ CommitOK(o) /\ op' = [op EXCEPT ![Doctor] = o]
             /\ o.replaced = <<>> /\ o.saved = <<>> /\ o.removed = <<>> /\ o.created = <<>>
             /\ o.writes # <<>>
             /\ DOMAIN o.removes = DOMAIN plan /\ \A i \in DOMAIN plan : o.removes[i] = plan[i].old
             /\ DOMAIN o.writes = DOMAIN plan
             /\ \A i \in DOMAIN plan : /\ o.writes[i].n = plan[i].n
                                       /\ \E f \in files : /\ Path(f) = plan[i].old
                                                           /\ f.item = o.writes[i].item
             /\ \A i \in DOMAIN plan : plan[i].old[1] \in DOMAIN o.config.redirects
<1>0. /\ op = [p \in Processes |-> op[p]] /\ files \subseteq File
      /\ yaml \in Config /\ clock \in 0..MaxWrites /\ MaxWrites \in Nat /\ Doctor \in Processes
  BY DoctorHas
<1> DEFINE plan == op[Doctor].plan
           found(i) == CHOOSE f \in At(files, plan[i].old) : TRUE
           moved(i) == [found(i) EXCEPT !.n = plan[i].n, !.rev = clock + i,
                                        !.maker = Doctor, !.writer = Doctor]
           writes == [i \in DOMAIN plan |-> moved(i)]
           removes == [i \in DOMAIN plan |-> plan[i].old]
           config == [yaml EXCEPT !.redirects = Redirected(@, plan)]
           answer == {<<moved(i).item, moved(i).n>> : i \in DOMAIN plan}
           seen == {found(i) : i \in DOMAIN plan}
           o == [kind |-> "renumber", writes |-> writes, config |-> config, removes |-> removes,
                 answer |-> answer, seen |-> seen, held |-> {}, replaced |-> <<>>,
                 saved |-> <<>>, removed |-> <<>>, created |-> <<>>]
<1>1. /\ PlanOK(plan) /\ plan # <<>> /\ \A i \in DOMAIN plan : ~Unready(plan[i])
      /\ clock + Len(plan) <= MaxWrites /\ op' = [op EXCEPT ![Doctor] = o]
  BY DEF Prepare, RTypeInv, DoctorOK
<1>2. op'[Doctor] = o
  BY <1>0, <1>1
<1>3. /\ DOMAIN plan = 1..Len(plan) /\ Len(plan) \in Nat
      /\ \A i \in DOMAIN plan : plan[i] \in [old : Numbers \X Titles, n : Numbers]
  BY <1>1, EntriesAre DEF PlanOK, Steps
<1> HIDE DEF plan
<1>4. ASSUME NEW i \in DOMAIN plan
      PROVE  /\ found(i) \in files /\ Path(found(i)) = plan[i].old
             /\ moved(i) \in File /\ moved(i).n = plan[i].n /\ moved(i).item = found(i).item
  <2>1. At(files, plan[i].old) # {}
    BY <1>1 DEF Unready
  <2>2. found(i) \in At(files, plan[i].old)
    BY <2>1
  <2>3. found(i) \in files /\ Path(found(i)) = plan[i].old
    BY <2>2 DEF At
  <2>4. found(i) \in File /\ plan[i].n \in Numbers
    BY <1>0, <1>3, <2>3
  <2>5. clock + i \in 1..MaxWrites
    <3>1. i \in Int /\ 1 <= i /\ i <= Len(plan) /\ Len(plan) \in Int
      BY <1>3
    <3>2. clock \in Int /\ 0 <= clock /\ MaxWrites \in Int
      BY <1>0
    <3>3. clock + Len(plan) <= MaxWrites
      BY <1>1
    <3> QED
      BY <3>1, <3>2, <3>3
  <2>6. Doctor \in Writers
    BY <1>0 DEF Writers
  <2> HIDE DEF found
  <2> QED
    BY <2>3, <2>4, <2>5, <2>6 DEF File
<1> HIDE DEF found, moved
<1>5. /\ writes \in Seq(File) /\ DOMAIN writes = DOMAIN plan
      /\ \A i \in DOMAIN plan : writes[i] = moved(i)
  BY <1>3, <1>4
<1>6. /\ removes \in Seq(Numbers \X Titles) /\ DOMAIN removes = DOMAIN plan
      /\ \A i \in DOMAIN plan : removes[i] = plan[i].old
  <2>1. \A i \in DOMAIN plan : plan[i].old \in Numbers \X Titles
    BY <1>3
  <2> QED
    BY <1>3, <2>1
<1>7. config \in Config /\ \A i \in DOMAIN plan : plan[i].old[1] \in DOMAIN config.redirects
  BY <1>0, <1>1, MergedIs
<1> HIDE DEF writes, removes, config, answer, seen
<1>8. /\ o.writes = writes /\ o.config = config /\ o.removes = removes
      /\ o.replaced = <<>> /\ o.saved = <<>> /\ o.removed = <<>> /\ o.created = <<>>
      /\ o.held = {}
      /\ o = [kind |-> o.kind, writes |-> o.writes, config |-> o.config, removes |-> o.removes,
              answer |-> o.answer, seen |-> o.seen, held |-> o.held, replaced |-> o.replaced,
              saved |-> o.saved, removed |-> o.removed, created |-> o.created]
  OBVIOUS
<1> HIDE DEF o
<1>9. CommitOK(o)
  <2>1. \A i, j \in DOMAIN writes : i # j => writes[i].n # writes[j].n
    BY <1>1, <1>4, <1>5 DEF PlanOK
  <2>2. o.saved \in Staged /\ o.held \in SUBSET File
    BY <1>8 DEF Staged
  <2> QED
    BY <1>5, <1>6, <1>7, <1>8, <2>1, <2>2, EmptyIs DEF CommitOK
<1>a. writes # <<>>
  <2>1. DOMAIN plan # {} /\ \A S : DOMAIN (<<>>) = {}
    BY <1>1, <1>3
  <2> QED
    BY <1>5, <2>1
<1>10. \A i \in DOMAIN plan : /\ writes[i].n = plan[i].n
                              /\ \E f \in files : Path(f) = plan[i].old /\ f.item = writes[i].item
  BY <1>4, <1>5
<1>11. op' = [op EXCEPT ![Doctor] = o]
  BY <1>1 DEF o, writes, removes, config, answer, seen, moved, found, plan
<1> QED
  BY <1>2, <1>5, <1>6, <1>7, <1>8, <1>9, <1>10, <1>11, <1>a DEF plan

LEMMA PreparedUnderWay ==
  ASSUME RTypeInv, Prepare(Doctor), Planned(files, op[Doctor].plan, {})
  PROVE  UnderWay(files, files, op'[Doctor])
<1> DEFINE o == op'[Doctor]
           plan == op[Doctor].plan
<1>0. files \subseteq File /\ OnePerPath(files) /\ \A f \in files : f.n \in Int
  <2>1. Numbers \subseteq Int
    BY BacklogAssumption DEF Numbers
  <2> QED
    BY <2>1, DoctorHas DEF File
<1>1. /\ CommitOK(o) /\ o.replaced = <<>> /\ o.removed = <<>> /\ o.created = <<>>
      /\ DOMAIN o.removes = DOMAIN plan /\ \A i \in DOMAIN plan : o.removes[i] = plan[i].old
      /\ DOMAIN o.writes = DOMAIN plan
      /\ \A i \in DOMAIN plan : /\ o.writes[i].n = plan[i].n
                                /\ \E f \in files : Path(f) = plan[i].old /\ f.item = o.writes[i].item
      /\ \A i \in DOMAIN plan : plan[i].old[1] \in DOMAIN o.config.redirects
  BY PreparedIs
<1>2. /\ \A i \in DOMAIN plan, f \in files : f.n < plan[i].n
      /\ \A f, g \in files : (f.n = g.n /\ Path(f) \notin {plan[i].old : i \in DOMAIN plan}
                                 /\ Path(g) \notin {plan[i].old : i \in DOMAIN plan}) => f = g
      /\ Olds(plan) \subseteq Paths(files)
  BY DEF Planned, Olds
<1> HIDE DEF o, plan
<1>b. Range(o.removed) = {} /\ Range(o.created) = {}
  BY <1>1, EmptyIs
<1>3. Moved(files, files, o) = Range(o.writes)
  BY DEF Moved
<1>4. Range(o.removes) = {plan[i].old : i \in DOMAIN plan}
  BY <1>1 DEF Range
<1>5. Lost(files, o) = {f \in files : Path(f) \in {plan[i].old : i \in DOMAIN plan}}
  BY <1>4, <1>b DEF Lost
<1>6. \A m \in Range(o.writes) : \E i \in DOMAIN plan : m = o.writes[i]
  BY <1>1 DEF Range
<1>7. \A m \in Moved(files, files, o), f \in files : f.n < m.n
  BY <1>1, <1>2, <1>3, <1>6
<1>8. \A m, k \in Moved(files, files, o) : m.n = k.n => m = k
  BY <1>1, <1>3, <1>6 DEF CommitOK
<1>9. Range(o.writes) \cap files = {}
  BY <1>0, <1>3, <1>7
<1>10. {m.item : m \in Moved(files, files, o)} = {f.item : f \in Lost(files, o)}
  <2>1. ASSUME NEW m \in Range(o.writes) PROVE \E f \in Lost(files, o) : f.item = m.item
    <3>1. PICK i \in DOMAIN plan : m = o.writes[i]
      BY <1>6
    <3>2. PICK f \in files : Path(f) = plan[i].old /\ f.item = m.item
      BY <1>1, <3>1
    <3> QED
      BY <1>5, <3>2
  <2>2. ASSUME NEW f \in Lost(files, o) PROVE \E m \in Range(o.writes) : f.item = m.item
    <3>1. PICK i \in DOMAIN plan : Path(f) = plan[i].old /\ f \in files
      BY <1>5
    <3>2. PICK g \in files : Path(g) = plan[i].old /\ g.item = o.writes[i].item
      BY <1>1
    <3>3. g = f /\ o.writes[i] \in Range(o.writes)
      BY <1>0, <1>1, <3>1, <3>2 DEF OnePerPath, Range
    <3> QED
      BY <3>2, <3>3
  <2> QED
    BY <1>3, <2>1, <2>2
<1>11. \A f \in Lost(files, o) : f.n \in DOMAIN o.config.redirects
  <2> SUFFICES ASSUME NEW f \in Lost(files, o) PROVE f.n \in DOMAIN o.config.redirects
    OBVIOUS
  <2>1. PICK i \in DOMAIN plan : Path(f) = plan[i].old
    BY <1>5
  <2>2. plan[i].old[1] = f.n
    BY <2>1 DEF Path
  <2> QED
    BY <1>1, <2>2
<1>12. \A f, g \in files \ Lost(files, o) : f.n = g.n => f = g
  BY <1>2, <1>5
<1>13. Range(o.removes) \subseteq Paths(files)
  BY <1>2, <1>4 DEF Olds
<1>14. Paths(files \ files) \subseteq Range(o.created)
  BY DEF Paths
<1>15. /\ Range(o.removed) \subseteq files /\ files \cap files = files \ Range(o.removed)
       /\ \A path \in Range(o.created), f \in files : f.n < path[1]
  BY <1>b
<1>16. o.replaced = <<>>
  BY <1>1
<1> QED
  BY <1>7, <1>8, <1>9, <1>10, <1>11, <1>12, <1>13, <1>14, <1>15, <1>16 DEF UnderWay, o

LEMMA PrepareKeeps ==
  ASSUME RTypeInv, AtomicInv, Prepare(Doctor)
  PROVE  RTypeInv' /\ AtomicInv'
<1>0. /\ pc' = [pc EXCEPT ![Doctor] = "write"] /\ pc[Doctor] = "confirm"
      /\ clock' = clock + Len(op[Doctor].plan) /\ clock + Len(op[Doctor].plan) <= MaxWrites
      /\ UNCHANGED <<files, tmps, yaml, ytmp, cfg, reserved, pulls, failures, outcome, before>>
  BY DEF Prepare, Goto, history
<1>1. /\ CommitOK(op'[Doctor]) /\ op' = [op EXCEPT ![Doctor] = op'[Doctor]]
      /\ op'[Doctor].writes # <<>> /\ op'[Doctor].saved = <<>>
  BY PreparedIs
<1>2. clock' \in 0..MaxWrites
  <2>1. Len(op[Doctor].plan) \in Nat
    BY <1>0, EntriesAre DEF RTypeInv, DoctorOK, PlanOK
  <2> QED
    BY <1>0, <2>1, DoctorHas
<1>3. TypeInv' /\ pc'[Doctor] = "write"
  BY <1>0, <1>1, <1>2, DoctorTypes, DoctorHas DEF DoctorPlaces, Committing
<1>5. RTypeInv'
  BY <1>0, <1>1, <1>3 DEF RTypeInv, DoctorOK, BeforeOK, DoctorPlaces, Committing, Writing
<1>6. Undisturbed'
  <2> SUFFICES ASSUME before # <<>> PROVE Undisturbed'
    BY <1>0 DEF Undisturbed
  <2>1. files = Head(before).files /\ yaml = Head(before).yaml
        /\ Planned(files, op[Doctor].plan, {})
    BY <1>0 DEF AtomicInv, Undisturbed
  <2>2. UnderWay(files, files, op'[Doctor])
    BY <2>1, PreparedUnderWay
  <2>3. UNCHANGED <<files, yaml, before>>
    BY <1>0
  <2> QED
    BY <1>1, <1>3, <2>1, <2>2, <2>3 DEF Undisturbed, Committing, Writing, Configuring, Removing
<1>7. Outcomes' /\ RenumberIsAtomic'
  BY <1>0, <1>3, NotYet DEF AtomicInv, Outcomes
<1> QED
  BY <1>5, <1>6, <1>7 DEF AtomicInv

(* The commit, access by access.                                           *)
LEMMA CommitHas ==
  ASSUME RTypeInv, pc[Doctor] \in Committing
  PROVE  /\ CommitOK(op[Doctor])
         /\ pc[Doctor] \in Writing <=> op[Doctor].writes # <<>>
         /\ op[Doctor].writes # <<>> =>
              /\ Head(op[Doctor].writes) \in File
              /\ Path(Head(op[Doctor].writes)) \in Numbers \X Titles
<1>1. CommitOK(op[Doctor]) /\ (pc[Doctor] \in Writing <=> op[Doctor].writes # <<>>)
  BY DEF RTypeInv, DoctorOK
<1>2. op[Doctor].writes # <<>> => Head(op[Doctor].writes) \in File
  BY <1>1, TailIs DEF CommitOK
<1>3. \A f \in File : Path(f) \in Numbers \X Titles
  BY DEF Path, File
<1> QED
  BY <1>1, <1>2, <1>3

LEMMA CommitGoesOn ==
  ASSUME RTypeInv, AtomicInv, pc[Doctor] \in Committing, NEW place \in Committing,
         pc' = [pc EXCEPT ![Doctor] = place], op' = [op EXCEPT ![Doctor] = op'[Doctor]],
         files' \subseteq File, OnePerPath(files'), IsFiniteSet(files'),
         tmps' \subseteq File, OnePerPath(tmps'), yaml' \in Config, ytmp' \in Staged,
         CommitOK(op'[Doctor]), place \in Writing <=> op'[Doctor].writes # <<>>,
         place = "drop" => op'[Doctor].removes # <<>> /\ op'[Doctor].held # {},
         UNCHANGED <<cfg, reserved, clock, pulls, failures, outcome, before>>
  PROVE  RTypeInv' /\ pc'[Doctor] = place /\ Outcomes' /\ RenumberIsAtomic'
<1>1. TypeInv' /\ pc'[Doctor] = place
  BY DoctorTypes, DoctorHas DEF DoctorPlaces
<1>2. DoctorOK'
  BY <1>1 DEF DoctorOK, DoctorPlaces, Committing, Writing
<1>3. RTypeInv'
  BY <1>1, <1>2 DEF RTypeInv, BeforeOK
<1>4. outcome \in {"none", "planned"}
  BY DEF AtomicInv, Outcomes, Committing
<1>5. Outcomes' /\ RenumberIsAtomic'
  BY <1>1, <1>4, NotYet DEF Outcomes
<1> QED
  BY <1>1, <1>3, <1>5

(* Nobody has a file where an undisturbed renumbering writes one.          *)
LEMMA WritesAreNew ==
  ASSUME RTypeInv, pc[Doctor] \in Writing, NEW B, UnderWay(files, B, op[Doctor])
  PROVE  LET w == Head(op[Doctor].writes)
         IN  /\ w \notin files /\ w \notin B /\ At(files, Path(w)) = {}
             /\ w \in Range(op[Doctor].writes) /\ \A f \in B : f.n < w.n
<1> DEFINE o == op[Doctor]
           w == Head(o.writes)
<1>1. CommitOK(o) /\ o.writes # <<>>
  BY CommitHas DEF Writing, Committing
<1>2. w \in File /\ w \in Range(o.writes) /\ w.n \in Int
  BY <1>1, TailIs, NumbersAreInts DEF CommitOK
<1> HIDE DEF o, w
<1>3. UnderWay(files, B, o)
  BY DEF o
<1>4. w \notin files /\ w \in Moved(files, B, o) /\ \A f \in B : f.n < w.n
  BY <1>2, <1>3 DEF UnderWay, Moved
<1>5. w \notin B
  BY <1>2, <1>4
<1>6. ASSUME NEW g \in files, Path(g) = Path(w) PROVE FALSE
  <2>1. g.n = w.n
    BY <1>6 DEF Path
  <2>2. CASE g \in B
    BY <1>2, <1>4, <2>1, <2>2
  <2>3. CASE g \notin B
    <3>1. g \in Moved(files, B, o)
      BY <2>3 DEF Moved
    <3> QED
      BY <1>3, <1>4, <2>1, <3>1 DEF UnderWay
  <2> QED
    BY <2>2, <2>3
<1>7. At(files, Path(w)) = {}
  BY <1>6 DEF At
<1> QED
  BY <1>2, <1>4, <1>5, <1>7 DEF o, w

LEMMA StillUnderWay ==
  ASSUME NEW F, NEW B, NEW o, NEW q, UnderWay(F, B, o),
         q.replaced = o.replaced, q.removed = o.removed, q.writes = o.writes,
         q.removes = o.removes, q.config = o.config, Range(o.created) \subseteq Range(q.created),
         \A path \in Range(q.created) \ Range(o.created), f \in B : f.n < path[1]
  PROVE  UnderWay(F, B, q)
<1>1. Moved(F, B, q) = Moved(F, B, o) /\ Lost(B, q) = Lost(B, o)
  BY DEF Moved, Lost
<1> QED
  BY <1>1 DEF UnderWay

LEMMA CommitReadIs ==
  ASSUME RTypeInv, CommitRead(Doctor)
  PROVE  LET o == op[Doctor]
             q == op'[Doctor]
             w == Head(o.writes)
         IN  /\ op' = [op EXCEPT ![Doctor] = q] /\ CommitOK(q)
             /\ q.writes = o.writes /\ q.removes = o.removes /\ q.config = o.config
             /\ q.answer = o.answer /\ q.seen = o.seen /\ q.held = o.held
             /\ q.saved = o.saved /\ q.removed = o.removed
             /\ IF At(files, Path(w)) = {}
                THEN /\ q.replaced = o.replaced
                     /\ Range(q.created) = Range(o.created) \cup {Path(w)}
                ELSE \E g \in At(files, Path(w)) :
                       /\ q.created = o.created
                       /\ Range(q.replaced) = Range(o.replaced) \cup {g}
<1> DEFINE o == op[Doctor]
           q == op'[Doctor]
           w == Head(o.writes)
           previous == At(files, Path(w))
<1>1. pc[Doctor] = "write" /\ op' = [op EXCEPT ![Doctor] = Noted(op[Doctor], w, previous)]
  BY DEF CommitRead
<1>2. /\ CommitOK(o) /\ Path(w) \in Numbers \X Titles /\ files \subseteq File
  BY <1>1, CommitHas, DoctorHas DEF Writing, Committing
<1>3. q = Noted(o, w, previous) /\ op' = [op EXCEPT ![Doctor] = q]
  BY <1>1, DoctorHas, SlotIs
<1> HIDE DEF o, q, w, previous
<1>a. o = [kind |-> o.kind, writes |-> o.writes, config |-> o.config, removes |-> o.removes,
           answer |-> o.answer, seen |-> o.seen, held |-> o.held, replaced |-> o.replaced,
           saved |-> o.saved, removed |-> o.removed, created |-> o.created]
  BY <1>2 DEF CommitOK
<1>4. CASE previous = {}
  <2>1. q = [o EXCEPT !.created = Append(@, Path(w))]
    BY <1>3, <1>4 DEF Noted
  <2>2. /\ q.writes = o.writes /\ q.removes = o.removes /\ q.config = o.config
        /\ q.answer = o.answer /\ q.seen = o.seen /\ q.held = o.held
        /\ q.saved = o.saved /\ q.removed = o.removed /\ q.replaced = o.replaced
        /\ q.created = Append(o.created, Path(w))
        /\ q = [kind |-> q.kind, writes |-> q.writes, config |-> q.config, removes |-> q.removes,
                answer |-> q.answer, seen |-> q.seen, held |-> q.held, replaced |-> q.replaced,
                saved |-> q.saved, removed |-> q.removed, created |-> q.created]
    BY <1>a, <2>1
  <2>3. /\ q.created \in Seq(Numbers \X Titles)
        /\ Range(q.created) = Range(o.created) \cup {Path(w)}
    <3>1. o.created \in Seq(Numbers \X Titles) /\ Path(w) \in Numbers \X Titles
      BY <1>2 DEF CommitOK
    <3>2. q.created = Append(o.created, Path(w))
      BY <2>2
    <3> QED
      BY <3>1, <3>2, AppendIs
  <2>4. CommitOK(q)
    BY <1>2, <2>2, <2>3 DEF CommitOK
  <2> QED
    BY <1>3, <1>4, <2>2, <2>3, <2>4 DEF o, q, w, previous
<1>5. CASE previous # {}
  <2> DEFINE g == CHOOSE g \in previous : TRUE
  <2>0. g \in previous /\ g \in File
    BY <1>2, <1>5 DEF previous, At
  <2> HIDE DEF g
  <2>1. q = [o EXCEPT !.replaced = Append(@, g)]
    BY <1>3, <1>5 DEF Noted, g
  <2>2. /\ q.writes = o.writes /\ q.removes = o.removes /\ q.config = o.config
        /\ q.answer = o.answer /\ q.seen = o.seen /\ q.held = o.held
        /\ q.saved = o.saved /\ q.removed = o.removed /\ q.created = o.created
        /\ q.replaced = Append(o.replaced, g)
        /\ q = [kind |-> q.kind, writes |-> q.writes, config |-> q.config, removes |-> q.removes,
                answer |-> q.answer, seen |-> q.seen, held |-> q.held, replaced |-> q.replaced,
                saved |-> q.saved, removed |-> q.removed, created |-> q.created]
    BY <1>a, <2>1
  <2>3. /\ q.replaced \in Seq(File) /\ Range(q.replaced) = Range(o.replaced) \cup {g}
    BY <1>2, <2>0, <2>2, AppendIs DEF CommitOK
  <2>4. CommitOK(q)
    BY <1>2, <2>2, <2>3 DEF CommitOK
  <2> QED
    BY <1>3, <1>5, <2>0, <2>2, <2>3, <2>4 DEF o, q, w, previous
<1> QED
  BY <1>4, <1>5

LEMMA CommitReadKeeps ==
  ASSUME RTypeInv, AtomicInv, CommitRead(Doctor)
  PROVE  RTypeInv' /\ AtomicInv'
<1> DEFINE o == op[Doctor]
           q == op'[Doctor]
           w == Head(o.writes)
<1>0. /\ pc[Doctor] = "write" /\ pc' = [pc EXCEPT ![Doctor] = "stage write"]
      /\ UNCHANGED <<files, tmps, yaml, ytmp, cfg, reserved, clock, pulls, failures, outcome, before>>
  BY DEF CommitRead, Goto, history
<1>1. /\ op' = [op EXCEPT ![Doctor] = q] /\ CommitOK(q)
      /\ q.writes = o.writes /\ q.removes = o.removes /\ q.config = o.config
      /\ q.saved = o.saved /\ q.removed = o.removed
      /\ At(files, Path(w)) = {} => /\ q.replaced = o.replaced
                                    /\ Range(q.created) = Range(o.created) \cup {Path(w)}
  BY CommitReadIs
<1>2. o.writes # <<>>
  BY <1>0, CommitHas DEF Writing, Committing
<1>3. RTypeInv' /\ pc'[Doctor] = "stage write" /\ Outcomes' /\ RenumberIsAtomic'
  BY <1>0, <1>1, <1>2, CommitGoesOn, DoctorHas DEF Writing, Committing
<1>4. ASSUME before # <<>>
      PROVE  UnderWay(files, Head(before).files, q) /\ Path(w) \in Range(q.created)
  <2>1. UnderWay(files, Head(before).files, o)
    BY <1>0, <1>4 DEF AtomicInv, Undisturbed, Committing
  <2>2. At(files, Path(w)) = {} /\ \A f \in Head(before).files : f.n < w.n
    BY <1>0, <2>1, WritesAreNew DEF Writing
  <2>3. Path(w)[1] = w.n
    BY DEF Path
  <2> HIDE DEF o, q, w
  <2> QED
    BY <1>1, <2>1, <2>2, <2>3, StillUnderWay
<1>5. Undisturbed'
  <2> SUFFICES ASSUME before # <<>> PROVE Undisturbed'
    BY <1>0 DEF Undisturbed
  <2>1. yaml = Head(before).yaml /\ o.saved = <<>>
    BY <1>0 DEF AtomicInv, Undisturbed, Writing, Configuring
  <2>2. UNCHANGED <<files, yaml, before>>
    BY <1>0
  <2> QED
    BY <1>1, <1>3, <1>4, <2>1, <2>2 DEF Undisturbed, Committing, Writing, Configuring, Removing
<1> QED
  BY <1>3, <1>5 DEF AtomicInv

LEMMA CommitStageKeeps ==
  ASSUME RTypeInv, AtomicInv, CommitStage(Doctor)
  PROVE  RTypeInv' /\ AtomicInv'
<1> DEFINE w == Head(op[Doctor].writes)
<1>0. /\ pc[Doctor] = "stage write" /\ pc' = [pc EXCEPT ![Doctor] = "land write"]
      /\ tmps' = Put(tmps, w)
      /\ UNCHANGED <<files, yaml, ytmp, cfg, reserved, op, clock, pulls, failures, outcome, before>>
  BY DEF CommitStage, Goto, history
<1>1. /\ op' = [op EXCEPT ![Doctor] = op'[Doctor]] /\ op'[Doctor] = op[Doctor]
      /\ CommitOK(op[Doctor]) /\ op[Doctor].writes # <<>> /\ w \in File
  BY <1>0, CommitHas, DoctorHas DEF Writing, Committing
<1> HIDE DEF w
<1>2. tmps' \subseteq File /\ OnePerPath(tmps') /\ At(tmps', Path(w)) = {w}
  BY <1>0, <1>1, PutKeeps, DoctorHas DEF Put, At
<1>3. RTypeInv' /\ pc'[Doctor] = "land write" /\ Outcomes' /\ RenumberIsAtomic'
  BY <1>0, <1>1, <1>2, CommitGoesOn, DoctorHas DEF Writing, Committing
<1>5. Undisturbed'
  <2> SUFFICES ASSUME before # <<>> PROVE Undisturbed'
    BY <1>0 DEF Undisturbed
  <2>1. /\ UnderWay(files, Head(before).files, op[Doctor])
        /\ yaml = Head(before).yaml /\ op[Doctor].saved = <<>>
        /\ Path(w) \in Range(op[Doctor].created)
    BY <1>0 DEF AtomicInv, Undisturbed, Committing, Writing, Configuring, w
  <2>2. UNCHANGED <<files, yaml, before>>
    BY <1>0
  <2> QED
    BY <1>1, <1>2, <1>3, <2>1, <2>2
    DEF Undisturbed, Committing, Writing, Configuring, Removing, w
<1> QED
  BY <1>3, <1>5 DEF AtomicInv

(* The commit turns back: what it noted is what has to be undone.          *)
LEMMA TurnBackIs ==
  ASSUME RTypeInv, pc[Doctor] \in Committing, TurnBack(Doctor)
  PROVE  LET o == op[Doctor]
             q == op'[Doctor]
         IN  /\ q.replaced = o.replaced /\ q.saved = o.saved /\ q.removed = o.removed
             /\ q.created = o.created
             /\ UndoOK(q) /\ op' = [op EXCEPT ![Doctor] = q]
             /\ pc' = [pc EXCEPT ![Doctor] = "undo"]
<1> DEFINE o == op[Doctor]
           q == op'[Doctor]
           u == [kind |-> "undo", replaced |-> o.replaced, saved |-> o.saved,
                 removed |-> o.removed, created |-> o.created]
<1>1. CommitOK(o)
  BY CommitHas
<1>2. op' = [op EXCEPT ![Doctor] = u] /\ pc' = [pc EXCEPT ![Doctor] = "undo"]
  BY DoctorHas DEF TurnBack, Goto
<1>3. q = u /\ op' = [op EXCEPT ![Doctor] = q]
  BY <1>2, DoctorHas, SlotIs
<1> HIDE DEF o, q
<1>4. UndoOK(u)
  BY <1>1 DEF CommitOK, UndoOK
<1> QED
  BY <1>2, <1>3, <1>4 DEF o, q

LEMMA TurnedBack ==
  ASSUME RTypeInv, NEW B, B \subseteq File, OnePerPath(B), NEW Y, NEW o, NEW q,
         UnderWay(files, B, o), o.saved = <<>> \/ o.saved = <<Y>>, o.saved = <<>> => yaml = Y,
         q.replaced = o.replaced, q.saved = o.saved, q.removed = o.removed,
         q.created = o.created
  PROVE  Undoing(files, yaml, B, Y, q)
<1>1. \A f \in B : f.n \in Int
  BY NumbersAreInts
<1>2. Paths(B) \cap Range(q.created) = {}
  <2> SUFFICES ASSUME NEW f \in B, Path(f) \in Range(o.created) PROVE FALSE
    BY DEF Paths
  <2>1. f.n < Path(f)[1] /\ Path(f)[1] = f.n
    BY DEF UnderWay, Path
  <2> QED
    BY <1>1, <2>1
<1>3. \A f \in B : f \in Range(q.removed) \/ \E g \in files : Alike(f, g)
  BY DEF UnderWay, Alike
<1>4. \A g \in files : Path(g) \in Range(q.created) \/ \E f \in B : Alike(f, g)
  BY DEF UnderWay, Alike, Paths
<1> QED
  BY <1>2, <1>3, <1>4 DEF Undoing, UnderWay

LEMMA TurnBackKeeps ==
  ASSUME RTypeInv, AtomicInv, pc[Doctor] \in Committing, TurnBack(Doctor),
         tmps' \subseteq tmps, ytmp' = ytmp \/ ytmp' = <<>>,
         UNCHANGED <<files, yaml, cfg, reserved, clock, pulls, failures, outcome, before>>
  PROVE  RTypeInv' /\ AtomicInv'
<1> DEFINE o == op[Doctor]
           q == op'[Doctor]
<1>1. /\ q.replaced = o.replaced /\ q.saved = o.saved /\ q.removed = o.removed
      /\ q.created = o.created
      /\ UndoOK(q) /\ op' = [op EXCEPT ![Doctor] = q]
      /\ pc' = [pc EXCEPT ![Doctor] = "undo"]
  BY TurnBackIs
<1>2. TypeInv' /\ pc'[Doctor] = "undo" /\ IsFiniteSet(files')
  BY <1>1, DoctorAside DEF DoctorPlaces
<1>3. RTypeInv'
  BY <1>1, <1>2 DEF RTypeInv, DoctorOK, BeforeOK, DoctorPlaces, Committing
<1>4. before # <<>> => Undoing(files, yaml, Head(before).files, Head(before).yaml, q)
  <2> SUFFICES ASSUME before # <<>>
      PROVE  Undoing(files, yaml, Head(before).files, Head(before).yaml, q)
    OBVIOUS
  <2>1. /\ UnderWay(files, Head(before).files, o)
        /\ o.saved = <<>> \/ o.saved = <<Head(before).yaml>>
        /\ o.saved = <<>> => yaml = Head(before).yaml
    <3>1. UnderWay(files, Head(before).files, o)
      BY DEF AtomicInv, Undisturbed
    <3>2. CASE pc[Doctor] \in Writing \cup {"config"}
      <4>1. o.saved = <<>> /\ yaml = Head(before).yaml
        BY <3>2 DEF AtomicInv, Undisturbed, Writing, Configuring
      <4> QED
        BY <3>1, <4>1
    <3>3. CASE pc[Doctor] \in {"stage config", "land config"} \cup Removing
      <4>1. o.saved = <<Head(before).yaml>>
        BY <3>3 DEF AtomicInv, Undisturbed
      <4>2. o.saved # <<>>
        BY <4>1
      <4> QED
        BY <3>1, <4>1, <4>2
    <3> QED
      BY <3>2, <3>3 DEF Committing, Writing, Removing
  <2> HIDE DEF o, q
  <2> QED
    BY <1>1, <2>1, BeforeHas, TurnedBack
<1>5. Undisturbed'
  <2> SUFFICES ASSUME before # <<>> PROVE Undisturbed'
    BY DEF Undisturbed
  <2> QED
    BY <1>2, <1>4 DEF Undisturbed, Committing, Writing, Configuring, Removing
<1>6. outcome \in {"none", "planned"}
  BY DEF AtomicInv, Outcomes, Committing
<1>7. Outcomes' /\ RenumberIsAtomic'
  BY <1>2, <1>6, NotYet DEF Outcomes
<1> QED
  BY <1>3, <1>5, <1>7 DEF AtomicInv

LEMMA CommitFailsKeeps ==
  ASSUME RTypeInv, AtomicInv, CommitFails(Doctor)
  PROVE  RTypeInv' /\ AtomicInv'
<1>1. /\ pc[Doctor] \in Committing /\ TurnBack(Doctor)
      /\ UNCHANGED <<files, yaml, cfg, reserved, clock, pulls, failures, outcome, before>>
      /\ tmps' \subseteq tmps /\ (ytmp' = ytmp \/ ytmp' = <<>>)
  BY DEF CommitFails
<1> QED
  BY <1>1, TurnBackKeeps

LEMMA CommitLandIs ==
  ASSUME RTypeInv, CommitLand(Doctor), At(tmps, Path(Head(op[Doctor].writes))) # {}
  PROVE  LET o == op[Doctor]
             q == op'[Doctor]
             w == Head(o.writes)
         IN  /\ op' = [op EXCEPT ![Doctor] = q] /\ CommitOK(q)
             /\ q.writes = Tail(o.writes) /\ q.removes = o.removes /\ q.config = o.config
             /\ q.answer = o.answer /\ q.seen = o.seen /\ q.held = o.held
             /\ q.saved = o.saved /\ q.removed = o.removed /\ q.created = o.created
             /\ q.replaced = o.replaced
             /\ Range(o.writes) = {w} \cup Range(q.writes)
             /\ w \in File /\ \A v \in Range(q.writes) : v.n # w.n
             /\ pc' = [pc EXCEPT ![Doctor] = IF q.writes = <<>> THEN "config" ELSE "write"]
             /\ files' = (files \ At(files, Path(w))) \cup At(tmps, Path(w))
             /\ tmps' = tmps \ At(tmps, Path(w))
<1> DEFINE o == op[Doctor]
           q == op'[Doctor]
           w == Head(o.writes)
<1>1. /\ pc[Doctor] = "land write" /\ op' = [op EXCEPT ![Doctor].writes = Tail(@)]
      /\ pc' = [pc EXCEPT ![Doctor] = IF Len(o.writes) = 1 THEN "config" ELSE "write"]
      /\ files' = (files \ At(files, Path(w))) \cup At(tmps, Path(w))
      /\ tmps' = tmps \ At(tmps, Path(w))
  BY DEF CommitLand, Goto
<1>2. CommitOK(o) /\ o.writes # <<>>
  BY <1>1, CommitHas DEF Writing, Committing
<1>3. q = [o EXCEPT !.writes = Tail(@)] /\ op' = [op EXCEPT ![Doctor] = q]
  BY <1>1, DoctorHas
<1> HIDE DEF q, w
<1>4. /\ q.writes = Tail(o.writes) /\ q.removes = o.removes /\ q.config = o.config
      /\ q.answer = o.answer /\ q.seen = o.seen /\ q.held = o.held
      /\ q.saved = o.saved /\ q.removed = o.removed /\ q.created = o.created
      /\ q.replaced = o.replaced
      /\ q = [kind |-> q.kind, writes |-> q.writes, config |-> q.config, removes |-> q.removes,
              answer |-> q.answer, seen |-> q.seen, held |-> q.held, replaced |-> q.replaced,
              saved |-> q.saved, removed |-> q.removed, created |-> q.created]
  BY <1>2, <1>3 DEF CommitOK
<1> HIDE DEF o
<1>5. /\ w \in File /\ Tail(o.writes) \in Seq(File)
      /\ Range(o.writes) = {w} \cup Range(Tail(o.writes))
      /\ \A i \in DOMAIN Tail(o.writes) : i + 1 \in DOMAIN o.writes /\ Tail(o.writes)[i] = o.writes[i + 1]
      /\ 1 \in DOMAIN o.writes /\ w = o.writes[1]
  BY <1>2, TailIs DEF CommitOK, w
<1>6. DOMAIN Tail(o.writes) \subseteq Nat \ {0}
  BY <1>5, EntriesAre
<1>7. /\ \A i, j \in DOMAIN q.writes : i # j => q.writes[i].n # q.writes[j].n
      /\ \A i \in DOMAIN q.writes : q.writes[i].n # w.n
  <2>1. \A i, j \in DOMAIN o.writes : i # j => o.writes[i].n # o.writes[j].n
    BY <1>2 DEF CommitOK
  <2>2. \A i, j \in Nat : i # j => i + 1 # j + 1
    OBVIOUS
  <2>3. \A i \in Nat \ {0} : i + 1 # 1
    OBVIOUS
  <2> QED
    BY <1>4, <1>5, <1>6, <2>1, <2>2, <2>3
<1>8. CommitOK(q)
  BY <1>2, <1>4, <1>5, <1>7 DEF CommitOK
<1>9. Len(o.writes) = 1 <=> q.writes = <<>>
  <2>1. o.writes \in Seq(File) /\ o.writes # <<>>
    BY <1>2 DEF CommitOK
  <2> QED
    BY <1>4, <2>1, LastIs
<1>10. \A v \in Range(q.writes) : v.n # w.n
  BY <1>7 DEF Range
<1> QED
  BY <1>1, <1>3, <1>4, <1>5, <1>8, <1>9, <1>10 DEF o, q, w

LEMMA LandUnderWay ==
  ASSUME NEW F, NEW B, NEW o, NEW q, NEW w, UnderWay(F, B, o), w \notin B,
         Range(o.writes) = {w} \cup Range(q.writes), \A v \in Range(q.writes) : v # w,
         Path(w) \in Range(o.created),
         q.removes = o.removes, q.config = o.config, q.removed = o.removed,
         q.created = o.created, q.replaced = o.replaced
  PROVE  UnderWay(F \cup {w}, B, q)
<1> DEFINE G == F \cup {w}
<1>1. Moved(G, B, q) = Moved(F, B, o) /\ Lost(B, q) = Lost(B, o)
  BY DEF Moved, Lost
<1>2. G \cap B = F \cap B /\ Range(q.writes) \cap G = {}
  BY DEF UnderWay
<1>3. Paths(G \ B) \subseteq Range(q.created)
  BY DEF UnderWay, Paths
<1> HIDE DEF G
<1>4. UnderWay(G, B, q)
  BY <1>1, <1>2, <1>3 DEF UnderWay
<1> QED
  BY <1>4 DEF G

LEMMA CommitLandKeeps ==
  ASSUME RTypeInv, AtomicInv, CommitLand(Doctor)
  PROVE  RTypeInv' /\ AtomicInv'
<1> DEFINE o == op[Doctor]
           q == op'[Doctor]
           w == Head(o.writes)
           staged == At(tmps, Path(w))
<1>0. /\ pc[Doctor] = "land write"
      /\ UNCHANGED <<yaml, ytmp, cfg, reserved, clock, pulls, failures, outcome, before>>
  BY DEF CommitLand
<1>1. CASE staged = {}
  <2>1. TurnBack(Doctor) /\ UNCHANGED <<files, tmps>>
    BY <1>1 DEF CommitLand
  <2> QED
    BY <1>0, <2>1, TurnBackKeeps DEF Committing
<1>2. CASE staged # {}
  <2>1. /\ op' = [op EXCEPT ![Doctor] = q] /\ CommitOK(q)
        /\ q.removes = o.removes /\ q.config = o.config /\ q.saved = o.saved
        /\ q.removed = o.removed /\ q.created = o.created /\ q.replaced = o.replaced
        /\ Range(o.writes) = {w} \cup Range(q.writes)
        /\ w \in File /\ \A v \in Range(q.writes) : v.n # w.n
        /\ pc' = [pc EXCEPT ![Doctor] = IF q.writes = <<>> THEN "config" ELSE "write"]
        /\ files' = (files \ At(files, Path(w))) \cup staged
        /\ tmps' = tmps \ staged
    BY <1>2, CommitLandIs
  <2>2. files' \subseteq File /\ OnePerPath(files') /\ tmps' \subseteq File /\ OnePerPath(tmps')
    <3> HIDE DEF w
    <3> QED
      BY <2>1, LandKeeps, LessKeeps, DoctorHas
  <2>3. IsFiniteSet(files')
    <3>1. PICK f : f \in staged
      BY <1>2
    <3>2. staged = {f}
      BY <3>1, DoctorHas DEF At, OnePerPath
    <3> HIDE DEF staged
    <3>3. files' \in SUBSET (files \cup {f}) /\ IsFiniteSet(files \cup {f})
      BY <2>1, <3>2, DoctorHas, FS_AddElement
    <3> QED
      BY <3>3, FS_Subset
  <2> DEFINE place == IF q.writes = <<>> THEN "config" ELSE "write"
  <2>4. place \in Committing /\ (place \in Writing <=> q.writes # <<>>) /\ place # "drop"
        /\ (place = "config" \/ place = "write")
    BY DEF Committing, Writing
  <2> HIDE DEF place, staged
  <2>5. RTypeInv' /\ pc'[Doctor] = place /\ Outcomes' /\ RenumberIsAtomic'
    <3>1. pc[Doctor] \in Committing /\ pc' = [pc EXCEPT ![Doctor] = place]
      BY <1>0, <2>1 DEF Committing, place
    <3> QED
      BY <1>0, <2>1, <2>2, <2>3, <2>4, <3>1, CommitGoesOn, DoctorHas
  <2>6. Undisturbed'
    <3> SUFFICES ASSUME before # <<>> PROVE Undisturbed'
      BY <1>0 DEF Undisturbed
    <3>1. /\ UnderWay(files, Head(before).files, o) /\ staged = {w}
          /\ yaml = Head(before).yaml /\ o.saved = <<>> /\ Path(w) \in Range(o.created)
      BY <1>0 DEF AtomicInv, Undisturbed, Committing, Writing, Configuring, staged
    <3>2. At(files, Path(w)) = {} /\ w \notin Head(before).files
      BY <1>0, <3>1, WritesAreNew DEF Writing
    <3>3. files' = files \cup {w}
      BY <2>1, <3>1, <3>2
    <3> HIDE DEF o, q, w
    <3>4. UnderWay(files', Head(before).files, q)
      BY <2>1, <3>1, <3>2, <3>3, LandUnderWay
    <3>5. UNCHANGED <<yaml, before>> /\ q.saved = <<>>
      BY <1>0, <2>1, <3>1
    <3> QED
      BY <2>4, <2>5, <3>1, <3>4, <3>5 DEF Undisturbed, Committing, Writing, Configuring, Removing, q
  <2> QED
    BY <2>5, <2>6 DEF AtomicInv
<1> QED
  BY <1>1, <1>2

LEMMA ConfigReadKeeps ==
  ASSUME RTypeInv, AtomicInv, ConfigRead(Doctor)
  PROVE  RTypeInv' /\ AtomicInv'
<1> DEFINE o == op[Doctor]
           q == op'[Doctor]
<1>0. /\ pc[Doctor] = "config" /\ op' = [op EXCEPT ![Doctor].saved = <<yaml>>]
      /\ pc' = [pc EXCEPT ![Doctor] = "stage config"]
      /\ UNCHANGED <<files, tmps, yaml, ytmp, cfg, reserved, clock, pulls, failures, outcome, before>>
  BY DEF ConfigRead, Goto, history
<1>1. CommitOK(o) /\ o.writes = <<>> /\ yaml \in Config
  BY <1>0, CommitHas, DoctorHas DEF Writing, Committing
<1>2. q = [o EXCEPT !.saved = <<yaml>>] /\ op' = [op EXCEPT ![Doctor] = q]
  BY <1>0, DoctorHas
<1> HIDE DEF o, q
<1>3. o = [kind |-> o.kind, writes |-> o.writes, config |-> o.config, removes |-> o.removes,
           answer |-> o.answer, seen |-> o.seen, held |-> o.held, replaced |-> o.replaced,
           saved |-> o.saved, removed |-> o.removed, created |-> o.created]
  BY <1>1 DEF CommitOK
<1>4. /\ q.writes = o.writes /\ q.removes = o.removes /\ q.config = o.config
      /\ q.answer = o.answer /\ q.seen = o.seen /\ q.held = o.held
      /\ q.saved = <<yaml>> /\ q.removed = o.removed /\ q.created = o.created
      /\ q.replaced = o.replaced
      /\ q = [kind |-> q.kind, writes |-> q.writes, config |-> q.config, removes |-> q.removes,
              answer |-> q.answer, seen |-> q.seen, held |-> q.held, replaced |-> q.replaced,
              saved |-> q.saved, removed |-> q.removed, created |-> q.created]
  BY <1>2, <1>3
<1>5. CommitOK(q)
  BY <1>1, <1>4, ConfigIsStaged DEF CommitOK
<1>6. RTypeInv' /\ pc'[Doctor] = "stage config" /\ Outcomes' /\ RenumberIsAtomic'
  BY <1>0, <1>1, <1>2, <1>4, <1>5, CommitGoesOn, DoctorHas DEF Writing, Committing, q
<1>7. Undisturbed'
  <2> SUFFICES ASSUME before # <<>> PROVE Undisturbed'
    BY <1>0 DEF Undisturbed
  <2>1. UnderWay(files, Head(before).files, o) /\ yaml = Head(before).yaml
    BY <1>0 DEF AtomicInv, Undisturbed, Committing, Configuring, o
  <2>2. UnderWay(files, Head(before).files, q)
    BY <1>4, <2>1, StillUnderWay
  <2>3. UNCHANGED <<files, yaml, before>> /\ q.saved = <<Head(before).yaml>>
    BY <1>0, <1>4, <2>1
  <2> QED
    BY <1>6, <2>1, <2>2, <2>3 DEF Undisturbed, Committing, Writing, Configuring, Removing, q
<1> QED
  BY <1>6, <1>7 DEF AtomicInv

LEMMA ConfigStageKeeps ==
  ASSUME RTypeInv, AtomicInv, ConfigStage(Doctor)
  PROVE  RTypeInv' /\ AtomicInv'
<1> DEFINE o == op[Doctor]
<1>0. /\ pc[Doctor] = "stage config" /\ ytmp' = <<o.config>>
      /\ pc' = [pc EXCEPT ![Doctor] = "land config"]
      /\ UNCHANGED <<files, tmps, yaml, cfg, reserved, op, clock, pulls, failures, outcome, before>>
  BY DEF ConfigStage, Goto, history
<1>1. CommitOK(o) /\ o.writes = <<>> /\ op'[Doctor] = o /\ op' = [op EXCEPT ![Doctor] = op'[Doctor]]
  BY <1>0, CommitHas, DoctorHas DEF Writing, Committing
<1>2. ytmp' \in Staged
  BY <1>0, <1>1, ConfigIsStaged DEF CommitOK
<1>3. RTypeInv' /\ pc'[Doctor] = "land config" /\ Outcomes' /\ RenumberIsAtomic'
  BY <1>0, <1>1, <1>2, CommitGoesOn, DoctorHas DEF Writing, Committing
<1>4. Undisturbed'
  <2> SUFFICES ASSUME before # <<>> PROVE Undisturbed'
    BY <1>0 DEF Undisturbed
  <2>1. /\ UnderWay(files, Head(before).files, o) /\ yaml = Head(before).yaml
        /\ o.saved = <<Head(before).yaml>>
    BY <1>0 DEF AtomicInv, Undisturbed, Committing, Configuring, o
  <2>2. UNCHANGED <<files, yaml, before>>
    BY <1>0
  <2> QED
    BY <1>0, <1>1, <1>3, <2>1, <2>2 DEF Undisturbed, Committing, Writing, Configuring, Removing
<1> QED
  BY <1>3, <1>4 DEF AtomicInv

LEMMA ConfigLandKeeps ==
  ASSUME RTypeInv, AtomicInv, ConfigLand(Doctor)
  PROVE  RTypeInv' /\ AtomicInv'
<1> DEFINE o == op[Doctor]
<1>0. /\ pc[Doctor] = "land config"
      /\ UNCHANGED <<files, tmps, cfg, reserved, clock, pulls, failures, outcome, before>>
  BY DEF ConfigLand
<1>1. CASE ytmp = <<>>
  <2>1. TurnBack(Doctor) /\ UNCHANGED <<yaml, ytmp>>
    BY <1>1 DEF ConfigLand
  <2> QED
    BY <1>0, <2>1, TurnBackKeeps DEF Committing
<1>2. CASE ytmp # <<>>
  <2>1. /\ yaml' = Head(ytmp) /\ ytmp' = <<>> /\ UNCHANGED op
        /\ pc' = [pc EXCEPT ![Doctor] = "removes"]
    BY <1>2 DEF ConfigLand, Goto
  <2>2. CommitOK(o) /\ o.writes = <<>> /\ op'[Doctor] = o /\ op' = [op EXCEPT ![Doctor] = op'[Doctor]]
    BY <1>0, <2>1, CommitHas, DoctorHas DEF Writing, Committing
  <2>3. yaml' \in Config /\ ytmp' \in Staged
    BY <1>2, <2>1, StagedIs, DoctorHas DEF Staged
  <2>4. RTypeInv' /\ pc'[Doctor] = "removes" /\ Outcomes' /\ RenumberIsAtomic'
    BY <1>0, <2>1, <2>2, <2>3, CommitGoesOn, DoctorHas DEF Writing, Committing
  <2>5. Undisturbed'
    <3> SUFFICES ASSUME before # <<>> PROVE Undisturbed'
      BY <1>0 DEF Undisturbed
    <3>1. /\ UnderWay(files, Head(before).files, o) /\ ytmp = <<o.config>>
          /\ o.saved = <<Head(before).yaml>>
      BY <1>0 DEF AtomicInv, Undisturbed, Committing, Configuring, o
    <3>2. yaml' = o.config
      BY <2>1, <3>1
    <3>3. UNCHANGED <<files, before>>
      BY <1>0
    <3> QED
      BY <2>2, <2>4, <3>1, <3>2, <3>3 DEF Undisturbed, Committing, Writing, Configuring, Removing
  <2> QED
    BY <2>4, <2>5 DEF AtomicInv
<1> QED
  BY <1>1, <1>2

LEMMA RemoveReadKeeps ==
  ASSUME RTypeInv, AtomicInv, RemoveRead(Doctor)
  PROVE  RTypeInv' /\ AtomicInv'
<1> DEFINE o == op[Doctor]
           q == op'[Doctor]
           path == Head(o.removes)
           standing == At(files, path)
<1>0. /\ pc[Doctor] = "removes" /\ o.removes # <<>>
      /\ IF standing = {}
         THEN op' = [op EXCEPT ![Doctor].removes = Tail(@)] /\ pc' = [pc EXCEPT ![Doctor] = "removes"]
         ELSE op' = [op EXCEPT ![Doctor].held = standing] /\ pc' = [pc EXCEPT ![Doctor] = "drop"]
      /\ UNCHANGED <<files, tmps, yaml, ytmp, cfg, reserved, clock, pulls, failures, outcome, before>>
  BY DoctorHas DEF RemoveRead, Goto, history
<1>1. CommitOK(o) /\ o.writes = <<>>
  BY <1>0, CommitHas DEF Writing, Committing
<1>3. o = [kind |-> o.kind, writes |-> o.writes, config |-> o.config, removes |-> o.removes,
           answer |-> o.answer, seen |-> o.seen, held |-> o.held, replaced |-> o.replaced,
           saved |-> o.saved, removed |-> o.removed, created |-> o.created]
  BY <1>1 DEF CommitOK
<1>b. before # <<>> => /\ UnderWay(files, Head(before).files, o) /\ yaml = o.config
                       /\ o.saved = <<Head(before).yaml>>
  BY <1>0 DEF AtomicInv, Undisturbed, Committing, Removing
<1>4. CASE standing = {}
  <2>1. q = [o EXCEPT !.removes = Tail(@)] /\ op' = [op EXCEPT ![Doctor] = q]
    BY <1>0, <1>4, DoctorHas
  <2>a. pc' = [pc EXCEPT ![Doctor] = "removes"]
    BY <1>0, <1>4
  <2> HIDE DEF o, q, path, standing
  <2>2. /\ q.writes = o.writes /\ q.removes = Tail(o.removes) /\ q.config = o.config
        /\ q.answer = o.answer /\ q.seen = o.seen /\ q.held = o.held
        /\ q.saved = o.saved /\ q.removed = o.removed /\ q.created = o.created
        /\ q.replaced = o.replaced
        /\ q = [kind |-> q.kind, writes |-> q.writes, config |-> q.config, removes |-> q.removes,
                answer |-> q.answer, seen |-> q.seen, held |-> q.held, replaced |-> q.replaced,
                saved |-> q.saved, removed |-> q.removed, created |-> q.created]
    BY <1>3, <2>1
  <2>3. /\ Tail(o.removes) \in Seq(Numbers \X Titles)
        /\ Range(o.removes) = {path} \cup Range(Tail(o.removes))
    BY <1>0, <1>1, TailIs DEF CommitOK, o, path
  <2>4. CommitOK(q)
    BY <1>1, <2>2, <2>3 DEF CommitOK
  <2>5. RTypeInv' /\ pc'[Doctor] = "removes" /\ Outcomes' /\ RenumberIsAtomic'
    BY <1>0, <1>1, <2>1, <2>2, <2>4, <2>a, CommitGoesOn, DoctorHas DEF Writing, Committing, q
  <2>6. Undisturbed'
    <3> SUFFICES ASSUME before # <<>> PROVE Undisturbed'
      BY <1>0 DEF Undisturbed
    <3> DEFINE B == Head(before).files
    <3>1. UnderWay(files, B, o)
      BY <1>b
    <3>2. ASSUME NEW f \in B, Path(f) = path PROVE f \in Range(o.removed)
      <4>1. f \notin files
        BY <1>4, <3>2 DEF standing, At
      <4> QED
        BY <3>1, <4>1 DEF UnderWay
    <3> HIDE DEF B
    <3>3. Lost(B, q) = Lost(B, o) /\ Moved(files, B, q) = Moved(files, B, o)
      BY <2>2, <2>3, <3>2 DEF Lost, Moved
    <3>4. UnderWay(files, B, q)
      BY <2>2, <2>3, <3>1, <3>3 DEF UnderWay
    <3>5. UNCHANGED <<files, yaml, before>>
      BY <1>0
    <3> QED
      BY <1>b, <2>2, <2>5, <3>4, <3>5 DEF Undisturbed, Committing, Writing, Configuring, Removing, q, B
  <2> QED
    BY <2>5, <2>6 DEF AtomicInv
<1>5. CASE standing # {}
  <2>1. q = [o EXCEPT !.held = standing] /\ op' = [op EXCEPT ![Doctor] = q]
    BY <1>0, <1>5, DoctorHas
  <2>a. pc' = [pc EXCEPT ![Doctor] = "drop"]
    BY <1>0, <1>5
  <2>b. standing \in SUBSET File
    BY DoctorHas DEF At
  <2> HIDE DEF o, q, path, standing
  <2>2. /\ q.writes = o.writes /\ q.removes = o.removes /\ q.config = o.config
        /\ q.answer = o.answer /\ q.seen = o.seen /\ q.held = standing
        /\ q.saved = o.saved /\ q.removed = o.removed /\ q.created = o.created
        /\ q.replaced = o.replaced
        /\ q = [kind |-> q.kind, writes |-> q.writes, config |-> q.config, removes |-> q.removes,
                answer |-> q.answer, seen |-> q.seen, held |-> q.held, replaced |-> q.replaced,
                saved |-> q.saved, removed |-> q.removed, created |-> q.created]
    BY <1>3, <2>1
  <2>4. CommitOK(q)
    BY <1>1, <2>2, <2>b DEF CommitOK
  <2>5. RTypeInv' /\ pc'[Doctor] = "drop" /\ Outcomes' /\ RenumberIsAtomic'
    BY <1>0, <1>1, <1>5, <2>1, <2>2, <2>4, <2>a, CommitGoesOn, DoctorHas DEF Writing, Committing, o, q
  <2>6. Undisturbed'
    <3> SUFFICES ASSUME before # <<>> PROVE Undisturbed'
      BY <1>0 DEF Undisturbed
    <3>4. UnderWay(files, Head(before).files, q)
      BY <1>b, <2>2, StillUnderWay
    <3>5. UNCHANGED <<files, yaml, before>> /\ q.held = At(files, Head(q.removes))
      BY <1>0, <2>2 DEF standing, path
    <3> QED
      BY <1>b, <2>2, <2>5, <3>4, <3>5 DEF Undisturbed, Committing, Writing, Configuring, Removing, q
  <2> QED
    BY <2>5, <2>6 DEF AtomicInv
<1> QED
  BY <1>4, <1>5

LEMMA CommitRemoveIs ==
  ASSUME RTypeInv, CommitRemove(Doctor), At(files, Head(op[Doctor].removes)) # {}
  PROVE  LET o == op[Doctor]
             q == op'[Doctor]
             path == Head(o.removes)
         IN  /\ op' = [op EXCEPT ![Doctor] = q] /\ CommitOK(q)
             /\ q.writes = o.writes /\ q.removes = Tail(o.removes) /\ q.config = o.config
             /\ q.answer = o.answer /\ q.seen = o.seen
             /\ q.saved = o.saved /\ q.created = o.created /\ q.replaced = o.replaced
             /\ \E g \in o.held : Range(q.removed) = Range(o.removed) \cup {g}
             /\ Range(o.removes) = {path} \cup Range(q.removes)
             /\ path \in Range(o.removes)
             /\ files' = files \ At(files, path)
             /\ pc' = [pc EXCEPT ![Doctor] = "removes"]
<1> DEFINE o == op[Doctor]
           q == op'[Doctor]
           path == Head(o.removes)
           g == CHOOSE g \in o.held : TRUE
<1>1. /\ pc[Doctor] = "drop" /\ pc' = [pc EXCEPT ![Doctor] = "removes"]
      /\ op' = [op EXCEPT ![Doctor].removes = Tail(@), ![Doctor].held = {},
                          ![Doctor].removed = Append(@, g)]
      /\ files' = files \ At(files, path)
  BY DEF CommitRemove, Goto
<1> HIDE DEF g
<1>2. CommitOK(o) /\ o.removes # <<>> /\ o.held # {}
  BY <1>1, CommitHas DEF Committing, RTypeInv, DoctorOK
<1>3. q = [o EXCEPT !.removes = Tail(@), !.held = {}, !.removed = Append(@, g)]
      /\ op' = [op EXCEPT ![Doctor] = q]
  BY <1>1, DoctorHas
<1> HIDE DEF o, q, path
<1>4. g \in o.held /\ g \in File
  BY <1>2 DEF CommitOK, g
<1>5. o = [kind |-> o.kind, writes |-> o.writes, config |-> o.config, removes |-> o.removes,
           answer |-> o.answer, seen |-> o.seen, held |-> o.held, replaced |-> o.replaced,
           saved |-> o.saved, removed |-> o.removed, created |-> o.created]
  BY <1>2 DEF CommitOK
<1>6. /\ q.writes = o.writes /\ q.removes = Tail(o.removes) /\ q.config = o.config
      /\ q.answer = o.answer /\ q.seen = o.seen /\ q.held = {}
      /\ q.saved = o.saved /\ q.removed = Append(o.removed, g) /\ q.created = o.created
      /\ q.replaced = o.replaced
      /\ q = [kind |-> q.kind, writes |-> q.writes, config |-> q.config, removes |-> q.removes,
              answer |-> q.answer, seen |-> q.seen, held |-> q.held, replaced |-> q.replaced,
              saved |-> q.saved, removed |-> q.removed, created |-> q.created]
  BY <1>3, <1>5
<1>7. /\ Tail(o.removes) \in Seq(Numbers \X Titles)
      /\ Range(o.removes) = {path} \cup Range(Tail(o.removes))
  BY <1>2, TailIs DEF CommitOK, path
<1>8. q.removed \in Seq(File) /\ Range(q.removed) = Range(o.removed) \cup {g}
  BY <1>2, <1>4, <1>6, AppendIs DEF CommitOK
<1>9. CommitOK(q)
  BY <1>2, <1>6, <1>7, <1>8 DEF CommitOK
<1> QED
  BY <1>1, <1>3, <1>4, <1>6, <1>7, <1>8, <1>9 DEF o, q, path

LEMMA CommitRemoveKeeps ==
  ASSUME RTypeInv, AtomicInv, CommitRemove(Doctor)
  PROVE  RTypeInv' /\ AtomicInv'
<1> DEFINE o == op[Doctor]
           q == op'[Doctor]
           path == Head(o.removes)
           gone == At(files, path)
<1>0. /\ pc[Doctor] = "drop"
      /\ UNCHANGED <<tmps, yaml, ytmp, cfg, reserved, clock, pulls, failures, outcome, before>>
  BY DEF CommitRemove
<1>1. CASE gone = {}
  <2>1. TurnBack(Doctor) /\ UNCHANGED files
    BY <1>1 DEF CommitRemove
  <2> QED
    BY <1>0, <2>1, TurnBackKeeps DEF Committing
<1>2. CASE gone # {}
  <2>1. /\ op' = [op EXCEPT ![Doctor] = q] /\ CommitOK(q)
        /\ q.writes = o.writes /\ q.config = o.config
        /\ q.saved = o.saved /\ q.created = o.created /\ q.replaced = o.replaced
        /\ \E g \in o.held : Range(q.removed) = Range(o.removed) \cup {g}
        /\ Range(o.removes) = {path} \cup Range(q.removes)
        /\ path \in Range(o.removes)
        /\ files' = files \ gone
        /\ pc' = [pc EXCEPT ![Doctor] = "removes"]
    BY <1>2, CommitRemoveIs
  <2>2. o.writes = <<>>
    BY <1>0, CommitHas DEF Committing, Writing
  <2>3. files' \subseteq File /\ OnePerPath(files') /\ IsFiniteSet(files')
    <3>1. files' \in SUBSET files
      BY <2>1
    <3> QED
      BY <2>1, <3>1, DoctorHas, LessKeeps, FS_Subset
  <2>4. RTypeInv' /\ pc'[Doctor] = "removes" /\ Outcomes' /\ RenumberIsAtomic'
    BY <1>0, <2>1, <2>2, <2>3, CommitGoesOn, DoctorHas DEF Writing, Committing
  <2>5. Undisturbed'
    <3> SUFFICES ASSUME before # <<>> PROVE Undisturbed'
      BY <1>0 DEF Undisturbed
    <3> DEFINE B == Head(before).files
    <3>1. /\ UnderWay(files, B, o) /\ o.held = gone
          /\ yaml = o.config /\ o.saved = <<Head(before).yaml>>
      BY <1>0 DEF AtomicInv, Undisturbed, Committing, Removing
    <3>2. \A f \in B : f.n \in Int
      BY NumbersAreInts, BeforeHas
    <3>3. gone \subseteq files /\ \A f \in gone : Path(f) = path
      BY DEF At
    <3> HIDE DEF o, q, path, B
    <3>4. Range(q.removed) = Range(o.removed) \cup gone
      <4>1. PICK g \in gone : Range(q.removed) = Range(o.removed) \cup {g}
        BY <2>1, <3>1
      <4>2. gone = {g}
        BY <3>3, DoctorHas DEF OnePerPath
      <4> QED
        BY <4>1, <4>2
    <3>5. gone \subseteq B
      <4> SUFFICES ASSUME NEW g \in gone, g \notin B PROVE FALSE
        OBVIOUS
      <4>1. PICK f \in B : Path(f) = path
        BY <2>1, <3>1 DEF UnderWay, Paths
      <4>2. g \in Moved(files, B, o) /\ g.n = f.n
        BY <3>3, <4>1 DEF Moved, Path
      <4>3. f.n < g.n
        BY <3>1, <4>2 DEF UnderWay
      <4> QED
        BY <3>2, <4>2, <4>3
    <3>6. \A f \in B : Path(f) = path => f \in gone \cup Range(o.removed)
      <4> SUFFICES ASSUME NEW f \in B, Path(f) = path, f \notin Range(o.removed) PROVE f \in gone
        OBVIOUS
      <4>1. f \in files
        BY <3>1 DEF UnderWay
      <4> QED
        BY <4>1 DEF At
    <3> HIDE DEF gone
    <3>7. Moved(files', B, q) = Moved(files, B, o) /\ files' \ B = files \ B
      BY <2>1, <3>5 DEF Moved
    <3>8. Lost(B, q) = Lost(B, o)
      BY <2>1, <3>3, <3>4, <3>5, <3>6 DEF Lost
    <3>9. files' \cap B = B \ Range(q.removed) /\ Range(q.removed) \subseteq B
      BY <2>1, <3>1, <3>4, <3>5 DEF UnderWay
    <3>10. Range(q.writes) \cap files' = {}
      BY <2>1, <3>1 DEF UnderWay
    <3>11. Range(q.removes) \subseteq Paths(B)
      BY <2>1, <3>1 DEF UnderWay
    <3>12. UnderWay(files', B, q)
      BY <2>1, <3>1, <3>7, <3>8, <3>9, <3>10, <3>11 DEF UnderWay
    <3>13. UNCHANGED <<yaml, before>>
      BY <1>0
    <3> QED
      BY <2>1, <2>4, <3>1, <3>12, <3>13 DEF Undisturbed, Committing, Writing, Configuring, Removing, q, B
  <2> QED
    BY <2>4, <2>5 DEF AtomicInv
<1> QED
  BY <1>1, <1>2

(* When the last removal is done, what is left is the files that kept their*)
(* numbers and the renumbered ones.                                        *)
LEMMA WhatIsLeft ==
  ASSUME NEW B, NEW o, UnderWay(files, B, o), o.writes = <<>>, o.removes = <<>>,
         \A f \in files \cup B : f.n \in Int
  PROVE  /\ Clashes = {} /\ {f.item : f \in files} = {f.item : f \in B}
         /\ \A f \in B : f \in files \/ f.n \in DOMAIN o.config.redirects
<1> DEFINE R == Range(o.removed)
<1>1. Moved(files, B, o) = files \ B /\ Lost(B, o) = R
  <2>1. Range(o.writes) = {} /\ Range(o.removes) = {}
    BY EmptyIs
  <2> QED
    BY <2>1 DEF Moved, Lost
<1>2. files = (files \ B) \cup (B \ R) /\ R \subseteq B
  BY DEF UnderWay
<1>3. /\ \A m \in files \ B, f \in B : f.n < m.n
      /\ \A m, k \in files \ B : m.n = k.n => m = k
      /\ {m.item : m \in files \ B} = {f.item : f \in R}
      /\ \A f \in R : f.n \in DOMAIN o.config.redirects
      /\ \A f, g \in B \ R : f.n = g.n => f = g
  BY <1>1 DEF UnderWay
<1> HIDE DEF R
<1>4. \A f, g \in files : f.n = g.n => f = g
  <2> SUFFICES ASSUME NEW f \in files, NEW g \in files, f.n = g.n PROVE f = g
    OBVIOUS
  <2>1. CASE f \in B /\ g \in B
    BY <1>2, <1>3, <2>1
  <2>2. CASE f \notin B /\ g \notin B
    BY <1>3, <2>2
  <2>3. CASE f \in B /\ g \notin B
    <3>1. f.n < g.n
      BY <1>3, <2>3
    <3> QED
      BY <3>1
  <2>4. CASE f \notin B /\ g \in B
    <3>1. g.n < f.n
      BY <1>3, <2>4
    <3> QED
      BY <3>1
  <2> QED
    BY <2>1, <2>2, <2>3, <2>4
<1>5. Clashes = {}
  <2> SUFFICES ASSUME NEW n \in Numbers, Cardinality(Claims(n)) > 1 PROVE FALSE
    BY DEF Clashes
  <2>1. Claims(n) = {} \/ \E f : Claims(n) = {f}
    BY <1>4 DEF Claims
  <2>2. Cardinality(Claims(n)) \in {0, 1}
    BY <2>1, FS_EmptySet, FS_Singleton
  <2> QED
    BY <2>2
<1>6. {f.item : f \in files} = {f.item : f \in B}
  <2>1. \A f \in files : \E g \in B : f.item = g.item
    <3> SUFFICES ASSUME NEW f \in files, f \notin B PROVE \E g \in B : f.item = g.item
      OBVIOUS
    <3>1. f.item \in {m.item : m \in files \ B}
      OBVIOUS
    <3>2. f.item \in {g.item : g \in R}
      BY <1>3, <3>1
    <3> QED
      BY <1>2, <3>2
  <2>2. \A g \in B : \E f \in files : f.item = g.item
    <3> SUFFICES ASSUME NEW g \in B, g \notin files PROVE \E f \in files : f.item = g.item
      OBVIOUS
    <3>1. g \in R
      BY <1>2
    <3>2. g.item \in {h.item : h \in R}
      BY <3>1
    <3>3. g.item \in {m.item : m \in files \ B}
      BY <1>3, <3>2
    <3> QED
      BY <3>3
  <2> QED
    BY <2>1, <2>2
<1>7. \A f \in B : f \in files \/ f.n \in DOMAIN o.config.redirects
  BY <1>2, <1>3
<1> QED
  BY <1>5, <1>6, <1>7

LEMMA AppliedKeeps ==
  ASSUME RTypeInv, AtomicInv, Applied(Doctor)
  PROVE  RTypeInv' /\ AtomicInv'
<1> DEFINE o == op[Doctor]
           B == Head(before).files
<1>0. /\ pc[Doctor] = "removes" /\ o.removes = <<>> /\ Return(Doctor)
      /\ outcome' = IF before = <<>> THEN "none" ELSE "applied"
      /\ UNCHANGED <<files, tmps, yaml, ytmp, cfg, reserved, clock, pulls, failures, before>>
  BY DEF Applied, Ends
<1>1. RTypeInv' /\ pc'[Doctor] = "idle" /\ Undisturbed'
  BY <1>0, EndIs, DoctorHas
<1>2. Outcomes'
  BY <1>0, <1>1 DEF Outcomes
<1>3. ASSUME before # <<>>
      PROVE  /\ Clashes = {} /\ {f.item : f \in files} = {f.item : f \in B}
             /\ \A f \in B : f \in files \/ f.n \in DOMAIN yaml.redirects
  <2>1. UnderWay(files, B, o) /\ yaml = o.config
    BY <1>0, <1>3 DEF AtomicInv, Undisturbed, Committing, Removing
  <2>2. o.writes = <<>>
    BY <1>0, CommitHas DEF Committing, Writing
  <2>3. \A f \in files \cup B : f.n \in Int
    BY <1>3, DoctorHas, BeforeHas, NumbersAreInts
  <2> HIDE DEF B, o
  <2> QED
    BY <1>0, <2>1, <2>2, <2>3, WhatIsLeft
<1> HIDE DEF B
<1>4. RenumberIsAtomic'
  <2>1. CASE before = <<>>
    BY <1>0, <2>1, NotYet
  <2>2. CASE before # <<>>
    <3>1. Clashes' = Clashes
      BY <1>0 DEF Clashes, Claims
    <3> QED
      BY <1>0, <1>3, <2>2, <3>1 DEF RenumberIsAtomic, RenumberSettles, FailureChangesNothing, B
  <2> QED
    BY <2>1, <2>2
<1> QED
  BY <1>1, <1>2, <1>4 DEF AtomicInv

-----------------------------------------------------------------------------
(* The rollback, access by access.                                         *)
LEMMA UndoHas ==
  ASSUME RTypeInv, pc[Doctor] = "undo"
  PROVE  UndoOK(op[Doctor])
BY DEF RTypeInv, DoctorOK

LEMMA OneMore ==
  ASSUME NEW m \in Nat, NEW a \in 0..m, NEW b, b = a \/ (a < m /\ b = a + 1)
  PROVE  b \in 0..m
OBVIOUS

LEMMA UndoGoesOn ==
  ASSUME RTypeInv, AtomicInv, NEW ok, Tried(Doctor, ok),
         op' = [op EXCEPT ![Doctor] = op'[Doctor]], UndoOK(op'[Doctor]),
         files' \subseteq File, OnePerPath(files'), IsFiniteSet(files'), yaml' \in Config,
         (ok /\ before # <<>> /\ outcome # "undo failed") =>
            Undoing(files', yaml', Head(before).files, Head(before).yaml, op'[Doctor])
  PROVE  RTypeInv' /\ AtomicInv'
<1>1. /\ pc[Doctor] = "undo" /\ pc' = [pc EXCEPT ![Doctor] = "undo"]
      /\ UNCHANGED <<tmps, ytmp, cfg, reserved, clock, pulls, before>>
  BY DoctorHas DEF Tried
<1>2. \/ ok /\ UNCHANGED <<failures, outcome>>
      \/ ~ok /\ failures < MaxFailures /\ failures' = failures + 1
             /\ outcome' = IF before = <<>> THEN "none" ELSE "undo failed"
  BY DEF Tried, Ends
<1>3. failures' \in 0..MaxFailures
  <2>1. failures \in 0..MaxFailures /\ MaxFailures \in Nat
    BY DoctorHas
  <2>2. failures' = failures \/ (failures < MaxFailures /\ failures' = failures + 1)
    BY <1>2
  <2> QED
    BY <2>1, <2>2, OneMore, Zenon
<1>4. TypeInv' /\ pc'[Doctor] = "undo"
  BY <1>1, <1>3, DoctorTypes, DoctorHas DEF DoctorPlaces
<1>5. RTypeInv'
  BY <1>1, <1>4 DEF RTypeInv, DoctorOK, BeforeOK, DoctorPlaces, Committing
<1>6. outcome \in {"none", "planned", "undo failed"}
  BY <1>1 DEF AtomicInv, Outcomes
<1>7. outcome' \in {"none", "planned", "undo failed"}
  BY <1>2, <1>6
<1>8. Outcomes' /\ RenumberIsAtomic'
  BY <1>4, <1>7, NotYet DEF Outcomes
<1>9. Undisturbed'
  <2> SUFFICES ASSUME before # <<>> PROVE Undisturbed'
    BY <1>1 DEF Undisturbed
  <2>1. outcome' # "undo failed" =>
          Undoing(files', yaml', Head(before).files, Head(before).yaml, op'[Doctor])
    BY <1>2
  <2>2. before' = before
    BY <1>1
  <2> QED
    BY <1>4, <2>1, <2>2 DEF Undisturbed, Committing, Writing, Configuring, Removing
<1> QED
  BY <1>5, <1>8, <1>9 DEF AtomicInv

(* Nobody has disturbed it.                                                *)
LEMMA UndoUndisturbed ==
  ASSUME RTypeInv, AtomicInv, pc[Doctor] = "undo", before # <<>>, outcome # "undo failed"
  PROVE  /\ Undoing(files, yaml, Head(before).files, Head(before).yaml, op[Doctor])
         /\ Head(before).files \subseteq File /\ OnePerPath(Head(before).files)
BY BeforeHas DEF AtomicInv, Undisturbed

(* The file that is written back, or nothing when that fails.              *)
LEMMA WriteBackIs ==
  ASSUME RTypeInv, NEW f \in File, NEW ok \in BOOLEAN, WriteBack(Doctor, f, ok)
  PROVE  /\ files' \subseteq File /\ OnePerPath(files') /\ IsFiniteSet(files')
         /\ ok => files' = Put(files, [f EXCEPT !.writer = Doctor])
         /\ ~ok => files' = files
<1> DEFINE g == [f EXCEPT !.writer = Doctor]
<1>1. g \in File
  <2>1. Doctor \in Writers
    BY DoctorHas DEF Writers
  <2> QED
    BY <2>1 DEF File
<1>2. /\ ok => files' = Put(files, g)
      /\ ~ok => files' = files
  BY DEF WriteBack
<1> HIDE DEF g
<1>3. CASE ok
  <2>1. files' \subseteq File /\ OnePerPath(files')
    BY <1>1, <1>2, <1>3, PutKeeps, DoctorHas
  <2>2. files' \in SUBSET (files \cup {g}) /\ IsFiniteSet(files \cup {g})
    BY <1>2, <1>3, DoctorHas, FS_AddElement DEF Put
  <2>3. IsFiniteSet(files')
    BY <2>2, FS_Subset
  <2> QED
    BY <1>2, <1>3, <2>1, <2>3 DEF g
<1>4. CASE ~ok
  BY <1>2, <1>4, DoctorHas DEF g
<1> QED
  BY <1>3, <1>4

LEMMA UndoReplacedKeeps ==
  ASSUME RTypeInv, AtomicInv, NEW ok \in BOOLEAN, UndoReplaced(Doctor, ok)
  PROVE  RTypeInv' /\ AtomicInv'
<1> DEFINE o == op[Doctor]
           q == op'[Doctor]
<1>0. /\ Tried(Doctor, ok) /\ pc[Doctor] = "undo" /\ o.replaced # <<>>
      /\ WriteBack(Doctor, Head(o.replaced), ok) /\ yaml' = yaml
      /\ op' = [op EXCEPT ![Doctor].replaced = Tail(@)]
  BY DEF UndoReplaced, Tried
<1>1. UndoOK(o)
  BY <1>0, UndoHas
<1>2. q = [o EXCEPT !.replaced = Tail(@)] /\ op' = [op EXCEPT ![Doctor] = q]
  BY <1>0, DoctorHas
<1> HIDE DEF o, q
<1>3. Head(o.replaced) \in File /\ Tail(o.replaced) \in Seq(File)
  BY <1>0, <1>1, TailIs DEF UndoOK
<1>4. UndoOK(q)
  BY <1>1, <1>2, <1>3 DEF UndoOK
<1>5. files' \subseteq File /\ OnePerPath(files') /\ IsFiniteSet(files')
  BY <1>0, <1>3, WriteBackIs
<1>6. ~(before # <<>> /\ outcome # "undo failed")
  BY <1>0, UndoUndisturbed DEF Undoing, o
<1> QED
  BY <1>0, <1>2, <1>4, <1>5, <1>6, UndoGoesOn, DoctorHas DEF q

LEMMA UndoConfigKeeps ==
  ASSUME RTypeInv, AtomicInv, NEW ok \in BOOLEAN, UndoConfig(Doctor, ok)
  PROVE  RTypeInv' /\ AtomicInv'
<1> DEFINE o == op[Doctor]
           q == op'[Doctor]
<1>0. /\ Tried(Doctor, ok) /\ pc[Doctor] = "undo" /\ o.saved # <<>>
      /\ yaml' = IF ok THEN Head(o.saved) ELSE yaml
      /\ op' = [op EXCEPT ![Doctor].saved = <<>>] /\ files' = files
  BY DEF UndoConfig, Tried
<1>1. UndoOK(o)
  BY <1>0, UndoHas
<1>2. q = [o EXCEPT !.saved = <<>>] /\ op' = [op EXCEPT ![Doctor] = q]
  BY <1>0, DoctorHas
<1> HIDE DEF o, q
<1>3. /\ q.replaced = o.replaced /\ q.removed = o.removed /\ q.created = o.created
      /\ q.saved = <<>>
      /\ q = [kind |-> q.kind, replaced |-> q.replaced, saved |-> q.saved, removed |-> q.removed,
              created |-> q.created]
  BY <1>1, <1>2 DEF UndoOK
<1>4. UndoOK(q)
  BY <1>1, <1>3 DEF UndoOK, Staged
<1>5. yaml' \in Config
  BY <1>0, <1>1, StagedIs, DoctorHas DEF UndoOK
<1>6. ASSUME ok, before # <<>>, outcome # "undo failed"
      PROVE  Undoing(files', yaml', Head(before).files, Head(before).yaml, q)
  <2>1. Undoing(files, yaml, Head(before).files, Head(before).yaml, o)
    BY <1>0, <1>6, UndoUndisturbed DEF o
  <2>2. yaml' = Head(before).yaml
    <3>1. o.saved = <<Head(before).yaml>>
      BY <1>0, <2>1 DEF Undoing
    <3>2. Head(<<Head(before).yaml>>) = Head(before).yaml
      OBVIOUS
    <3> QED
      BY <1>0, <1>6, <3>1, <3>2
  <2>3. files' = files
    BY <1>0
  <2> QED
    BY <1>3, <2>1, <2>2, <2>3 DEF Undoing
<1> QED
  BY <1>0, <1>2, <1>4, <1>5, <1>6, UndoGoesOn, DoctorHas DEF q

LEMMA UndoRemovedKeeps ==
  ASSUME RTypeInv, AtomicInv, NEW ok \in BOOLEAN, UndoRemoved(Doctor, ok)
  PROVE  RTypeInv' /\ AtomicInv'
<1> DEFINE o == op[Doctor]
           q == op'[Doctor]
           f == Head(o.removed)
<1>0. /\ Tried(Doctor, ok) /\ pc[Doctor] = "undo" /\ o.removed # <<>>
      /\ WriteBack(Doctor, f, ok) /\ yaml' = yaml
      /\ op' = [op EXCEPT ![Doctor].removed = Tail(@)]
  BY DEF UndoRemoved, Tried
<1>1. UndoOK(o)
  BY <1>0, UndoHas
<1>2. q = [o EXCEPT !.removed = Tail(@)] /\ op' = [op EXCEPT ![Doctor] = q]
  BY <1>0, DoctorHas
<1> HIDE DEF o, q
<1>3. /\ f \in File /\ Tail(o.removed) \in Seq(File)
      /\ Range(o.removed) = {f} \cup Range(Tail(o.removed))
  BY <1>0, <1>1, TailIs DEF UndoOK
<1> HIDE DEF f
<1>4. /\ q.replaced = o.replaced /\ q.removed = Tail(o.removed) /\ q.created = o.created
      /\ q.saved = o.saved
      /\ q = [kind |-> q.kind, replaced |-> q.replaced, saved |-> q.saved, removed |-> q.removed,
              created |-> q.created]
  BY <1>1, <1>2 DEF UndoOK
<1>5. UndoOK(q)
  BY <1>1, <1>3, <1>4 DEF UndoOK
<1>6. /\ files' \subseteq File /\ OnePerPath(files') /\ IsFiniteSet(files')
      /\ ok => files' = Put(files, [f EXCEPT !.writer = Doctor])
  BY <1>0, <1>3, WriteBackIs
<1>7. ASSUME ok, before # <<>>, outcome # "undo failed"
      PROVE  Undoing(files', yaml', Head(before).files, Head(before).yaml, q)
  <2> DEFINE B == Head(before).files
             back == [f EXCEPT !.writer = Doctor]
  <2>1. /\ Undoing(files, yaml, B, Head(before).yaml, o)
        /\ B \subseteq File /\ OnePerPath(B) /\ f \in B
    <3>1. Undoing(files, yaml, B, Head(before).yaml, o) /\ B \subseteq File /\ OnePerPath(B)
      BY <1>0, <1>7, UndoUndisturbed DEF o
    <3> QED
      BY <1>3, <3>1 DEF Undoing
  <2>2. Alike(f, back) /\ Alike(back, f) /\ Path(back) = Path(f)
    BY <1>3 DEF Alike, Path, File
  <2>3. \A g, h \in File : Alike(g, h) => Path(g) = Path(h)
    <3> SUFFICES ASSUME NEW g \in File, NEW h \in File, Alike(g, h) PROVE Path(g) = Path(h)
      OBVIOUS
    <3>1. /\ [g EXCEPT !.writer = "git"].n = g.n /\ [g EXCEPT !.writer = "git"].title = g.title
          /\ [h EXCEPT !.writer = "git"].n = h.n /\ [h EXCEPT !.writer = "git"].title = h.title
      BY DEF File
    <3> QED
      BY <3>1 DEF Alike, Path
  <2>a. files' = (files \ At(files, Path(f))) \cup {back} /\ files \subseteq File
    BY <1>6, <1>7, <2>2, DoctorHas DEF Put
  <2> HIDE DEF B, back
  <2>4. ASSUME NEW b \in B PROVE b \in Range(q.removed) \/ \E g \in files' : Alike(b, g)
    <3>1. CASE b = f
      BY <2>2, <2>a, <3>1
    <3>2. CASE b # f /\ b \notin Range(o.removed)
      <4>1. PICK g \in files : Alike(b, g)
        BY <2>1, <3>2 DEF Undoing
      <4>2. Path(g) = Path(b) /\ Path(b) # Path(f)
        BY <2>1, <2>3, <2>a, <3>2, <4>1 DEF OnePerPath
      <4> QED
        BY <2>a, <4>1, <4>2 DEF At
    <3>3. CASE b # f /\ b \in Range(o.removed)
      BY <1>3, <1>4, <3>3
    <3> QED
      BY <3>1, <3>2, <3>3
  <2>5. ASSUME NEW g \in files' PROVE Path(g) \in Range(q.created) \/ \E b \in B : Alike(b, g)
    <3>1. CASE g = back
      BY <2>1, <2>2, <3>1
    <3>2. CASE g \in files
      BY <1>4, <2>1, <3>2 DEF Undoing
    <3> QED
      BY <2>a, <3>1, <3>2
  <2>6. Range(q.removed) \subseteq B
    BY <1>3, <1>4, <2>1 DEF Undoing
  <2> QED
    BY <1>0, <1>4, <2>1, <2>4, <2>5, <2>6 DEF Undoing, B
<1>8. yaml' \in Config
  BY <1>0, DoctorHas
<1> QED
  BY <1>0, <1>2, <1>5, <1>6, <1>7, <1>8, UndoGoesOn DEF q

LEMMA UndoCreatedKeeps ==
  ASSUME RTypeInv, AtomicInv, NEW ok \in BOOLEAN, UndoCreated(Doctor, ok)
  PROVE  RTypeInv' /\ AtomicInv'
<1> DEFINE o == op[Doctor]
           q == op'[Doctor]
           path == Head(o.created)
<1>0. /\ Tried(Doctor, ok) /\ pc[Doctor] = "undo" /\ o.created # <<>>
      /\ files' = IF ok THEN files \ At(files, path) ELSE files
      /\ op' = [op EXCEPT ![Doctor].created = Tail(@)] /\ yaml' = yaml
  BY DEF UndoCreated, Tried
<1>1. UndoOK(o)
  BY <1>0, UndoHas
<1>2. q = [o EXCEPT !.created = Tail(@)] /\ op' = [op EXCEPT ![Doctor] = q]
  BY <1>0, DoctorHas
<1> HIDE DEF o, q
<1>3. /\ Tail(o.created) \in Seq(Numbers \X Titles)
      /\ Range(o.created) = {path} \cup Range(Tail(o.created))
  BY <1>0, <1>1, TailIs DEF UndoOK
<1> HIDE DEF path
<1>4. /\ q.replaced = o.replaced /\ q.removed = o.removed /\ q.created = Tail(o.created)
      /\ q.saved = o.saved
      /\ q = [kind |-> q.kind, replaced |-> q.replaced, saved |-> q.saved, removed |-> q.removed,
              created |-> q.created]
  BY <1>1, <1>2 DEF UndoOK
<1>5. UndoOK(q)
  BY <1>1, <1>3, <1>4 DEF UndoOK
<1>6. files' \subseteq File /\ OnePerPath(files') /\ IsFiniteSet(files')
  <2>1. files' \in SUBSET files
    BY <1>0
  <2>2. files' \subseteq File /\ IsFiniteSet(files')
    BY <2>1, DoctorHas, FS_Subset
  <2>3. OnePerPath(files')
    BY <2>1, DoctorHas DEF OnePerPath
  <2> QED
    BY <2>2, <2>3
<1>7. ASSUME ok, before # <<>>, outcome # "undo failed"
      PROVE  Undoing(files', yaml', Head(before).files, Head(before).yaml, q)
  <2> DEFINE B == Head(before).files
  <2>1. /\ Undoing(files, yaml, B, Head(before).yaml, o)
        /\ B \subseteq File
    BY <1>0, <1>7, UndoUndisturbed DEF o
  <2>a. files' = files \ At(files, path) /\ files \subseteq File
    BY <1>0, <1>7, DoctorHas
  <2> HIDE DEF B
  <2>2. \A b \in B, g \in files : Alike(b, g) => Path(g) = Path(b)
    <3> SUFFICES ASSUME NEW g \in File, NEW h \in File, Alike(g, h) PROVE Path(h) = Path(g)
      BY <2>1, <2>a
    <3>1. /\ [g EXCEPT !.writer = "git"].n = g.n /\ [g EXCEPT !.writer = "git"].title = g.title
          /\ [h EXCEPT !.writer = "git"].n = h.n /\ [h EXCEPT !.writer = "git"].title = h.title
      BY DEF File
    <3> QED
      BY <3>1 DEF Alike, Path
  <2>3. ASSUME NEW b \in B PROVE b \in Range(q.removed) \/ \E g \in files' : Alike(b, g)
    <3>1. CASE b \in Range(o.removed)
      BY <1>4, <3>1
    <3>2. CASE b \notin Range(o.removed)
      <4>1. PICK g \in files : Alike(b, g)
        BY <2>1, <3>2 DEF Undoing
      <4>2. Path(g) # path
        BY <1>3, <2>1, <2>2, <4>1 DEF Undoing, Paths
      <4> QED
        BY <2>a, <4>1, <4>2 DEF At
    <3> QED
      BY <3>1, <3>2
  <2>4. ASSUME NEW g \in files' PROVE Path(g) \in Range(q.created) \/ \E b \in B : Alike(b, g)
    <3>1. g \in files /\ Path(g) # path
      BY <2>a DEF At
    <3> QED
      BY <1>3, <1>4, <2>1, <3>1 DEF Undoing
  <2>5. Paths(B) \cap Range(q.created) = {}
    BY <1>3, <1>4, <2>1 DEF Undoing
  <2> QED
    BY <1>0, <1>4, <2>1, <2>3, <2>4, <2>5 DEF Undoing, B
<1>8. yaml' \in Config
  BY <1>0, DoctorHas
<1> QED
  BY <1>0, <1>2, <1>5, <1>6, <1>7, <1>8, UndoGoesOn DEF q

(* When nothing is left to undo, the contents are those from before.       *)
LEMMA UndoneIs ==
  ASSUME NEW F, NEW y, NEW B, NEW Y, NEW o, Undoing(F, y, B, Y, o),
         o.saved = <<>>, o.removed = <<>>, o.created = <<>>
  PROVE  Contents(F) = Contents(B) /\ y = Y
<1>1. Range(o.removed) = {} /\ Range(o.created) = {}
  BY EmptyIs
<1>2. /\ \A f \in B : \E g \in F : Alike(f, g)
      /\ \A g \in F : \E f \in B : Alike(f, g)
  BY <1>1 DEF Undoing
<1>3. Contents(F) = Contents(B)
  <2>1. \A f \in B : \E g \in F : [f EXCEPT !.writer = "git"] = [g EXCEPT !.writer = "git"]
    BY <1>2 DEF Alike
  <2>2. \A g \in F : \E f \in B : [f EXCEPT !.writer = "git"] = [g EXCEPT !.writer = "git"]
    BY <1>2 DEF Alike
  <2>3. Contents(F) \subseteq Contents(B)
    BY <2>2, Zenon DEF Contents
  <2>4. Contents(B) \subseteq Contents(F)
    BY <2>1, Zenon DEF Contents
  <2> QED
    BY <2>3, <2>4
<1> QED
  BY <1>3 DEF Undoing

LEMMA RolledBackKeeps ==
  ASSUME RTypeInv, AtomicInv, RolledBack(Doctor)
  PROVE  RTypeInv' /\ AtomicInv'
<1> DEFINE o == op[Doctor]
<1>0. /\ pc[Doctor] = "undo" /\ Return(Doctor)
      /\ o.saved = <<>> /\ o.removed = <<>> /\ o.created = <<>>
      /\ outcome' = IF outcome = "undo failed" THEN outcome
                    ELSE IF before = <<>> THEN "none" ELSE "rolled back"
      /\ UNCHANGED <<files, tmps, yaml, ytmp, cfg, reserved, clock, pulls, failures, before>>
  BY DEF RolledBack, Ends
<1>1. RTypeInv' /\ pc'[Doctor] = "idle" /\ Undisturbed'
  BY <1>0, EndIs, DoctorHas
<1>2. Outcomes'
  BY <1>0, <1>1 DEF Outcomes
<1>3. RenumberIsAtomic'
  <2>1. CASE outcome = "undo failed" \/ before = <<>>
    BY <1>0, <2>1, NotYet
  <2>2. CASE outcome # "undo failed" /\ before # <<>>
    <3>1. Undoing(files, yaml, Head(before).files, Head(before).yaml, o)
      BY <1>0, <2>2, UndoUndisturbed
    <3> HIDE DEF o
    <3>2. Contents(files) = Contents(Head(before).files) /\ yaml = Head(before).yaml
      BY <1>0, <3>1, UndoneIs
    <3>3. Contents(files') = Contents(files) /\ yaml' = yaml /\ before' = before
      BY <1>0
    <3> QED
      BY <1>0, <2>2, <3>2, <3>3
      DEF RenumberIsAtomic, RenumberSettles, FailureChangesNothing, Contents
  <2> QED
    BY <2>1, <2>2
<1> QED
  BY <1>1, <1>2, <1>3 DEF AtomicInv

-----------------------------------------------------------------------------
(* Everybody else.                                                         *)

LEMMA StaysFinite ==
  ASSUME RTypeInv, [Next]_storeVars
  PROVE  IsFiniteSet(files')
<1>0. IsFiniteSet(files) /\ tmps \subseteq File /\ OnePerPath(tmps)
  BY DEF RTypeInv, TypeInv, TypeOK
<1>1. ASSUME NEW p \in Processes, Land(p) PROVE IsFiniteSet(files')
  <2> DEFINE staged == At(tmps, Path(op[p].file))
  <2>1. CASE staged = {}
    BY <1>0, <1>1, <2>1 DEF Land
  <2>2. CASE staged # {}
    <3>1. files' = (files \ At(files, Path(op[p].file))) \cup staged
      BY <1>1, <2>2 DEF Land
    <3>2. PICK f : f \in staged
      BY <2>2
    <3>3. staged = {f}
      BY <1>0, <3>2 DEF At, OnePerPath
    <3> HIDE DEF staged
    <3>4. files' \in SUBSET (files \cup {f})
      BY <3>1, <3>3
    <3>5. IsFiniteSet(files \cup {f})
      BY <1>0, FS_AddElement
    <3> QED
      BY <3>4, <3>5, FS_Subset
  <2> QED
    BY <2>1, <2>2
<1>2. CASE files' \in SUBSET files
  BY <1>0, <1>2, FS_Subset
<1>3. ASSUME NEW f, files' \in SUBSET (files \cup {f}) PROVE IsFiniteSet(files')
  <2>1. IsFiniteSet(files \cup {f})
    BY <1>0, FS_AddElement
  <2> QED
    BY <1>3, <2>1, FS_Subset
<1>4. ASSUME NEW p \in Processes, StoreStep(p), ~Land(p) PROVE files' \in SUBSET files
  BY <1>4 DEF StoreStep, Allocate, ReadCounter, StageCounter, LandCounter, Guard, ReadChecked, Refuse, Stage,
              Unlink, RemoveFile, Rediscover, Crash
<1>5. CASE GitStep
  <2>1. \E f : files' \in SUBSET (files \cup {f})
    BY <1>5 DEF GitStep, PullFile, PullEdit, PullRemoval, Put
  <2> QED
    BY <1>3, <2>1
<1>6. CASE UNCHANGED storeVars
  BY <1>2, <1>6 DEF storeVars
<1> QED
  BY <1>1, <1>2, <1>4, <1>5, <1>6 DEF Next

LEMMA Untouched ==
  ASSUME RTypeInv, GitStep \/ (\E p \in Processes \ {Doctor} : StoreStep(p)) \/ UNCHANGED <<pc, op>>
  PROVE  pc'[Doctor] = pc[Doctor] /\ op'[Doctor] = op[Doctor]
<1>0. pc \in [Processes -> Places] /\ op = [p \in Processes |-> op[p]] /\ Doctor \in Processes
  BY DoctorHas
<1>1. ASSUME NEW p \in Processes \ {Doctor}, StoreStep(p)
      PROVE  /\ UNCHANGED pc \/ \E place : pc' = [pc EXCEPT ![p] = place]
             /\ UNCHANGED op \/ \E X : op' = [op EXCEPT ![p] = X]
  <2>1. CASE \E t \in Titles : Allocate(p, t)
    BY <2>1 DEF Allocate, Goto
  <2>2. CASE ReadCounter(p)
    BY <2>2 DEF ReadCounter, Goto
  <2>3. CASE StageCounter(p) \/ LandCounter(p)
    BY <2>3 DEF StageCounter, LandCounter, Goto, Return
  <2>4. CASE Guard(p)
    BY <2>4 DEF Guard, Goto, Return
  <2>5. CASE \E n \in Numbers, quoted \in 1..clock, t \in Titles,
                kind \in {"edit", "hard delete"} : ReadChecked(p, n, quoted, kind, t)
    <3>1. PICK n \in Numbers, quoted \in 1..clock, t \in Titles,
               kind \in {"edit", "hard delete"} : ReadChecked(p, n, quoted, kind, t)
      BY <2>5
    <3> QED
      BY <3>1 DEF ReadChecked, Goto
  <2>6. CASE Stage(p)
    <3>1. \E f : op' = [op EXCEPT ![p].file = f]
      BY <2>6 DEF Stage
    <3>2. \E place : pc' = [pc EXCEPT ![p] = place]
      BY <2>6 DEF Stage, Goto
    <3> QED
      BY <3>1, <3>2
  <2>7. CASE Land(p)
    BY <2>7 DEF Land, Goto, Return
  <2>8. CASE Refuse(p) \/ Unlink(p) \/ RemoveFile(p) \/ Crash(p)
    BY <2>8 DEF Refuse, Unlink, RemoveFile, Crash, Goto, Return
  <2>9. CASE Rediscover(p)
    BY <2>9 DEF Rediscover
  <2> QED
    BY <1>1, <2>1, <2>2, <2>3, <2>4, <2>5, <2>6, <2>7, <2>8, <2>9 DEF StoreStep
<1>2. CASE \E p \in Processes \ {Doctor} : StoreStep(p)
  BY <1>0, <1>1, <1>2
<1>3. CASE GitStep
  BY <1>3 DEF GitStep, PullFile, PullEdit, PullRemoval
<1> QED
  BY <1>2, <1>3

(* Whoever changes a file or project.yaml makes an end of what before says;*)
(* who does not leaves it true.                                            *)
LEMMA OthersKeep ==
  ASSUME RTypeInv, AtomicInv, [Next]_storeVars,
         pc'[Doctor] = pc[Doctor], op'[Doctor] = op[Doctor],
         \/ outcome' = "none" /\ before' = <<>>
         \/ UNCHANGED <<files, tmps, yaml, ytmp, outcome, before>>
  PROVE  RTypeInv' /\ AtomicInv'
<1>1. TypeInv'
  <2>0. TypeInv
    BY DEF RTypeInv
  <2>1. TypeOK'
    <3>1. /\ files' \subseteq File /\ OnePerPath(files)'
          /\ tmps' \subseteq File /\ OnePerPath(tmps)' /\ clock' \in 0..MaxWrites
      BY <2>0, FilesKeep
    <3>2. /\ yaml' \in Config /\ ytmp' \in Staged /\ cfg' \in [Processes -> Config]
          /\ reserved' \in [Processes -> 0..MaxNumber]
          /\ pulls' \in 0..MaxPulls /\ failures' \in 0..MaxFailures
      BY <2>0, ConfigKeeps
    <3> QED
      BY <3>1, <3>2 DEF TypeOK, Staged
  <2> QED
    BY <2>0, <2>1, OpsKeep DEF TypeInv
<1>2. RTypeInv'
  <2>1. DoctorOK'
    BY DEF RTypeInv, DoctorOK, DoctorPlaces, Committing, Writing
  <2>2. BeforeOK'
    BY DEF RTypeInv, BeforeOK
  <2> QED
    BY <1>1, <2>1, <2>2, StaysFinite DEF RTypeInv
<1>3. CASE outcome' = "none" /\ before' = <<>>
  <2>1. AtomicInv'
    BY <1>3 DEF AtomicInv, Undisturbed, Outcomes, RenumberIsAtomic, RenumberSettles,
                FailureChangesNothing
  <2> QED
    BY <1>2, <2>1
<1>4. CASE UNCHANGED <<files, tmps, yaml, ytmp, outcome, before>>
  <2>0. /\ files' = files /\ tmps' = tmps /\ yaml' = yaml /\ ytmp' = ytmp
        /\ outcome' = outcome /\ before' = before
    BY <1>4
  <2>1. Undisturbed' /\ Outcomes'
    <3> DEFINE o == op[Doctor]
               B == Head(before).files
               Y == Head(before).yaml
    <3>1. Outcomes'
      BY <2>0 DEF AtomicInv, Outcomes
    <3>2. CASE before = <<>>
      BY <2>0, <3>1, <3>2 DEF Undisturbed
    <3>3. CASE before # <<>>
      <4>0. /\ op'[Doctor] = o /\ pc'[Doctor] = pc[Doctor]
            /\ Head(before').files = B /\ Head(before').yaml = Y
        BY <2>0
      <4>1. (/\ pc[Doctor] \in {"scan", "plan", "confirm"} => files = B /\ yaml = Y
             /\ pc[Doctor] = "plan" => Planned(B, o.plan, Range(o.losers))
             /\ pc[Doctor] = "confirm" => Planned(B, o.plan, {}))'
        <5>1. /\ pc[Doctor] \in {"scan", "plan", "confirm"} => files = B /\ yaml = Y
              /\ pc[Doctor] = "plan" => Planned(B, o.plan, Range(o.losers))
              /\ pc[Doctor] = "confirm" => Planned(B, o.plan, {})
          BY <3>3 DEF AtomicInv, Undisturbed
        <5> QED
          BY <2>0, <4>0, <5>1
      <4>2. (/\ pc[Doctor] \in Committing => UnderWay(files, B, o)
             /\ pc[Doctor] \in {"stage write", "land write"} =>
                  Path(Head(o.writes)) \in Range(o.created))'
        <5>1. /\ pc[Doctor] \in Committing => UnderWay(files, B, o)
              /\ pc[Doctor] \in {"stage write", "land write"} =>
                   Path(Head(o.writes)) \in Range(o.created)
          BY <3>3 DEF AtomicInv, Undisturbed
        <5> QED
          BY <2>0, <4>0, <5>1
      <4>3. (/\ pc[Doctor] = "land write" => At(tmps, Path(Head(o.writes))) = {Head(o.writes)}
             /\ pc[Doctor] = "land config" => ytmp = <<o.config>>
             /\ pc[Doctor] \in Writing \cup Configuring => yaml = Y)'
        <5>1. /\ pc[Doctor] = "land write" => At(tmps, Path(Head(o.writes))) = {Head(o.writes)}
              /\ pc[Doctor] = "land config" => ytmp = <<o.config>>
              /\ pc[Doctor] \in Writing \cup Configuring => yaml = Y
          BY <3>3 DEF AtomicInv, Undisturbed
        <5> QED
          BY <2>0, <4>0, <5>1
      <4>4. (/\ pc[Doctor] \in Writing \cup {"config"} => o.saved = <<>>
             /\ pc[Doctor] \in {"stage config", "land config"} \cup Removing => o.saved = <<Y>>
             /\ pc[Doctor] \in Removing => yaml = o.config
             /\ pc[Doctor] = "drop" => o.held = At(files, Head(o.removes))
             /\ pc[Doctor] = "undo" /\ outcome # "undo failed" =>
                  Undoing(files, yaml, B, Y, o))'
        <5>1. /\ pc[Doctor] \in Writing \cup {"config"} => o.saved = <<>>
              /\ pc[Doctor] \in {"stage config", "land config"} \cup Removing => o.saved = <<Y>>
              /\ pc[Doctor] \in Removing => yaml = o.config
              /\ pc[Doctor] = "drop" => o.held = At(files, Head(o.removes))
              /\ pc[Doctor] = "undo" /\ outcome # "undo failed" => Undoing(files, yaml, B, Y, o)
          BY <3>3 DEF AtomicInv, Undisturbed
        <5> QED
          BY <2>0, <4>0, <5>1
      <4> QED
        BY <3>1, <4>1, <4>2, <4>3, <4>4 DEF Undisturbed
    <3> QED
      BY <3>2, <3>3
  <2>2. Clashes' = Clashes
    BY <1>4 DEF Clashes, Claims
  <2>3. RenumberIsAtomic'
    BY <1>4, <2>2 DEF AtomicInv, RenumberIsAtomic, RenumberSettles, FailureChangesNothing, Contents
  <2> QED
    BY <1>2, <2>1, <2>3 DEF AtomicInv
<1> QED
  BY <1>3, <1>4

LEMMA RNextKeeps ==
  ASSUME RTypeInv, AtomicInv, [RNext]_vars
  PROVE  RTypeInv' /\ AtomicInv'
<1>1. CASE DoctorStep
  <2>1. ASSUME NEW ok \in BOOLEAN,
               \/ UndoReplaced(Doctor, ok) \/ UndoConfig(Doctor, ok)
               \/ UndoRemoved(Doctor, ok) \/ UndoCreated(Doctor, ok)
        PROVE  RTypeInv' /\ AtomicInv'
    BY <2>1, UndoReplacedKeeps, UndoConfigKeeps, UndoRemovedKeeps, UndoCreatedKeeps
  <2>2. CASE \/ Open(Doctor) \/ FindDuplicates(Doctor) \/ GiveNumber(Doctor)
             \/ GiveUp(Doctor) \/ Prepare(Doctor)
    BY <2>2, OpenKeeps, FindDuplicatesKeeps, GiveNumberKeeps, GiveUpKeeps, PrepareKeeps
  <2>3. CASE CommitRead(Doctor) \/ CommitStage(Doctor) \/ CommitLand(Doctor)
    BY <2>3, CommitReadKeeps, CommitStageKeeps, CommitLandKeeps
  <2>4. CASE ConfigRead(Doctor) \/ ConfigStage(Doctor) \/ ConfigLand(Doctor)
    BY <2>4, ConfigReadKeeps, ConfigStageKeeps, ConfigLandKeeps
  <2>5. CASE \/ RemoveRead(Doctor) \/ CommitRemove(Doctor) \/ Applied(Doctor)
             \/ CommitFails(Doctor) \/ RolledBack(Doctor)
    BY <2>5, RemoveReadKeeps, CommitRemoveKeeps, AppliedKeeps, CommitFailsKeeps, RolledBackKeeps
  <2> QED
    BY <1>1, <2>1, <2>2, <2>3, <2>4, <2>5 DEF DoctorStep
<1>2. CASE DoctorDies
  BY <1>2, DeathKeeps
<1>3. ASSUME NEW p \in Processes \ {Doctor}, Bystander(StoreStep(p)) PROVE RTypeInv' /\ AtomicInv'
  <2>1. StoreStep(p) /\ Next
    BY <1>3 DEF Bystander, Next
  <2>2. pc'[Doctor] = pc[Doctor] /\ op'[Doctor] = op[Doctor]
    BY <2>1, Untouched
  <2>3. \/ outcome' = "none" /\ before' = <<>>
        \/ UNCHANGED <<files, tmps, yaml, ytmp, outcome, before>>
    BY <1>3 DEF Bystander
  <2> QED
    BY <2>1, <2>2, <2>3, OthersKeep
<1>4. CASE Bystander(GitStep)
  <2>1. GitStep /\ Next
    BY <1>4 DEF Bystander, Next
  <2>2. pc'[Doctor] = pc[Doctor] /\ op'[Doctor] = op[Doctor]
    BY <2>1, Untouched
  <2>3. \/ outcome' = "none" /\ before' = <<>>
        \/ UNCHANGED <<files, tmps, yaml, ytmp, outcome, before>>
    BY <1>4 DEF Bystander
  <2> QED
    BY <2>1, <2>2, <2>3, OthersKeep
<1>5. CASE UNCHANGED vars
  <2>1. UNCHANGED storeVars /\ UNCHANGED <<files, tmps, yaml, ytmp, outcome, before>> /\ UNCHANGED <<pc, op>>
    BY <1>5 DEF vars, storeVars
  <2> QED
    BY <2>1, OthersKeep
<1> QED
  BY <1>1, <1>2, <1>3, <1>4, <1>5 DEF RNext

LEMMA RInitKeeps == RInit => RTypeInv /\ AtomicInv
<1> SUFFICES ASSUME RInit PROVE RTypeInv /\ AtomicInv
  OBVIOUS
<1>1. Init /\ TypeInv /\ outcome = "none" /\ before = <<>>
  BY InitTypes DEF RInit
<1>2. IsFiniteSet(files) /\ pc[Doctor] = "idle"
  BY <1>1, BacklogAssumption, RenumberAssumption DEF Init
<1>3. RTypeInv
  BY <1>1, <1>2 DEF RTypeInv, DoctorOK, BeforeOK, DoctorPlaces, Committing
<1>4. AtomicInv
  BY <1>1, <1>2 DEF AtomicInv, Undisturbed, Outcomes, RenumberIsAtomic, RenumberSettles,
                    FailureChangesNothing
<1> QED
  BY <1>3, <1>4

LEMMA Renumbering == RSpec => [](RTypeInv /\ AtomicInv)
<1>1. (RTypeInv /\ AtomicInv) /\ [RNext]_vars => (RTypeInv /\ AtomicInv)'
  BY RNextKeeps
<1> QED
  BY RInitKeeps, <1>1, PTL DEF RSpec

(* With gintrack doctor --renumber among the writers, and whatever it has  *)
(* begun or undone, the files stand one to a path and everything in        *)
(* project.yaml is a number of the project.                                *)
THEOREM RenumberTypeOK == RSpec => []TypeOK
<1>1. RTypeInv => TypeOK
  BY DEF RTypeInv, TypeInv
<1> QED
  BY Renumbering, <1>1, PTL

(* ApplyRenumber and fileTx: a renumbering nobody disturbs is done, with no*)
(* number claimed twice, no item lost and a redirect for every file that   *)
(* moved; or it was refused, or it failed at some access and every access  *)
(* of the undoing succeeded, and every file and project.yaml are as before.*)
THEOREM RenumberingIsAtomic == RSpec => []RenumberIsAtomic
<1>1. AtomicInv => RenumberIsAtomic
  BY DEF AtomicInv
<1> QED
  BY Renumbering, <1>1, PTL

-----------------------------------------------------------------------------
(* An old id.  The files of an item that are there to stay are those that  *)
(* no rename under way will remove, nor the doctor once project.yaml has   *)
(* its redirect.                                                           *)
Others == Processes \ {Doctor}
Fore == Writing \cup Configuring
Seen == IF pc[Doctor] \in Committing THEN op[Doctor].seen ELSE {}
ToWrite == IF pc[Doctor] \in Committing THEN Range(op[Doctor].writes) ELSE {}
Answer == IF pc[Doctor] \in Committing THEN op[Doctor].answer ELSE {}
PutAside ==
    (IF pc[Doctor] \in Committing THEN op[Doctor].held ELSE {})
    \cup (IF pc[Doctor] \in Committing \cup {"undo"}
          THEN Range(op[Doctor].replaced) \cup Range(op[Doctor].removed) ELSE {})
Clear == ~trampled /\ clobbered = {}

(* Files that stand or stood, and files that are written and not there yet.*)
Stood == files \cup Seen \cup PutAside
Coming == tmps \cup ToWrite

(* A revision is of one item, and is on its way at one place only.         *)
Revs(stood, coming, c) ==
    /\ \A f \in stood \cup coming : f.rev <= c
    /\ \A f, g \in stood \cup coming : f.rev = g.rev => f.item = g.item
    /\ \A f \in coming, g \in stood : f.rev # g.rev
    /\ \A f, g \in coming : f.rev = g.rev => f = g
RevsOK == Revs(Stood, Coming, clock)

(* What a caller quotes was read, and names the item that is written.      *)
Changes == {"stage", "land", "unlink", "remove"}
Quotes(o, stood, coming, c) ==
    /\ o.quoted \in 0..c
    /\ o.old # <<>> => o.old[1] = o.file.n
    /\ o.quoted = 0 => o.old = <<>>
    /\ o.quoted # 0 => o.file.item # 0
    /\ \A g \in stood \cup coming : g.rev = o.quoted => g.item = o.file.item
    /\ \A g \in coming : g.rev # o.quoted
QuoteOK(p) == pc[p] \in Changes => Quotes(op[p], Stood, Coming, clock)
QuotesOK == \A p \in Others : QuoteOK(p)

(* Everybody signs what is on its way.                                     *)
Signed(p) == pc[p] \in {"stage", "land"} => op[p].file.writer = p
OwnWrites == (\A w \in ToWrite : w.writer = Doctor) /\ (\A p \in Others : Signed(p))

Sound == RevsOK /\ QuotesOK /\ OwnWrites

CommitSeen == pc[Doctor] \in Committing =>
    /\ op[Doctor].seen \subseteq File
    /\ \A w \in Range(op[Doctor].writes) : <<w.item, w.n>> \in op[Doctor].answer
    /\ pc[Doctor] \in Fore =>
         \A s \in op[Doctor].seen : /\ s.n \in DOMAIN op[Doctor].config.redirects
                                    /\ Path(s) \in Range(op[Doctor].removes)

Unlinked == {f \in files : \E p \in Others : /\ pc[p] = "unlink" /\ Path(f) = op[p].old
                                             /\ f.rev = op[p].quoted}
Doomed == {f \in files \cap Seen : Path(f) \in Range(op[Doctor].removes)}
Stays == files \ Unlinked
Safe == Stays \ Doomed
Kept == IF pc[Doctor] \in Removing THEN Safe ELSE Stays

Led(F, redirects, a) == \E f \in F : f.item = a[1] /\ Leads(redirects, a[2], f.n)

AllLed == pc[Doctor] # "undo" => \A a \in acked : Led(Kept, yaml.redirects, a)

(* A file that the doctor has read and written under its new number can go:*)
(* the redirect to come leads past it.                                     *)
Target(s) == op[Doctor].config.redirects[s.n]
Pending(s) == \E w \in Range(op[Doctor].writes) : w.item = s.item /\ w.n = Target(s)
MovedLed ==
    (pc[Doctor] \in Fore /\ ~RedirectShared(op[Doctor].removes)) =>
        \A s \in Seen : ~Pending(s) =>
            \A a \in acked : a[1] = s.item =>
                \/ Led(Safe, yaml.redirects, a)
                \/ \E f \in Safe : f.item = s.item /\ f.n = Target(s)

(* What a rollback goes back to.                                           *)
BeforeLed ==
    (before # <<>> /\ pc[Doctor] # "idle") =>
        /\ \A p \in Others : pc[p] # "unlink"
        /\ \A a \in acked \ Answer : Led(Head(before).files, Head(before).yaml.redirects, a)

Leading == CommitSeen /\ Sound /\ AllLed /\ MovedLed /\ BeforeLed /\ outcome # "undo failed"
LeadInv == Clear => Leading

-----------------------------------------------------------------------------
(* Redirects lead on when there are more of them.                          *)
Extends(r, s) == \A k \in DOMAIN r : k \in DOMAIN s /\ s[k] = r[k]

LEMMA LeadsToItself == \A r, n : Leads(r, n, n)
BY DEF Leads

LEMMA LeadsOn ==
  ASSUME NEW r, NEW s, Extends(r, s), NEW n, NEW m, Leads(r, n, m)
  PROVE  Leads(s, n, m) /\ (m \in DOMAIN s => Leads(s, n, s[m]))
<1>1. Leads(s, n, m)
  <2> SUFFICES ASSUME NEW S \in SUBSET Numbers, n \in S, \A k \in S \cap DOMAIN s : s[k] \in S
               PROVE  m \in S
    BY DEF Leads
  <2>1. \A k \in S \cap DOMAIN r : r[k] \in S
    BY DEF Extends
  <2> QED
    BY <2>1 DEF Leads
<1>2. ASSUME m \in DOMAIN s PROVE Leads(s, n, s[m])
  BY <1>1, <1>2 DEF Leads
<1> QED
  BY <1>1, <1>2

(* A file that takes the place of another one leads where it led.          *)
Follows(F, G, x) == \A f \in F : f.item = x => \E g \in G : g.item = x /\ g.n = f.n

LEMMA LedOn ==
  ASSUME NEW F, NEW G, NEW r, NEW s, Extends(r, s), NEW a, Led(F, r, a), Follows(F, G, a[1])
  PROVE  Led(G, s, a)
<1>1. PICK f \in F : f.item = a[1] /\ Leads(r, a[2], f.n)
  BY DEF Led
<1>2. PICK g \in G : g.item = a[1] /\ g.n = f.n
  BY <1>1 DEF Follows
<1>3. Leads(s, a[2], f.n)
  BY <1>1, LeadsOn
<1> QED
  BY <1>2, <1>3 DEF Led

LEMMA ExtendsItself == \A r : Extends(r, r)
BY DEF Extends

(* Revisions of a step: what lands leaves the files that are on their way, *)
(* what is new is of the step itself.                                      *)
Same(f, g) == f.rev = g.rev /\ f.item = g.item

SameQuote(o, q) ==
    /\ q.quoted = o.quoted /\ q.old = o.old /\ q.file.n = o.file.n
    /\ o.quoted # 0 => q.file.item = o.file.item

(* From the files S and C that stand and come to T and D: L lands, M is put *)
(* there by git, N is new and on its way.                                  *)
Carries(S, C, c, T, D, d, L, M, N) ==
    /\ S \in SUBSET File /\ C \in SUBSET File /\ c \in Nat
    /\ T \in SUBSET File /\ D \in SUBSET File /\ d \in Nat /\ c <= d
    /\ L \in SUBSET C /\ M \cap N = {}
    /\ \A f \in T : f \in M \/ \E g \in S \cup L : Same(f, g)
    /\ D \subseteq (C \ L) \cup N
    /\ \A f \in M \cup N : f.rev \in c + 1 .. d
    /\ \A f, g \in M \cup N : f.rev = g.rev => f = g

LEMMA RevsCarry ==
  ASSUME NEW S, NEW C, NEW c, NEW T, NEW D, NEW d, NEW L, NEW M, NEW N,
         Carries(S, C, c, T, D, d, L, M, N), Revs(S, C, c)
  PROVE  /\ Revs(T, D, d)
         /\ \A o, q : Quotes(o, S, C, c) /\ SameQuote(o, q) => Quotes(q, T, D, d)
<1>a. /\ S \in SUBSET File /\ C \in SUBSET File /\ c \in Nat
      /\ T \in SUBSET File /\ D \in SUBSET File /\ d \in Nat /\ c <= d
      /\ L \in SUBSET C /\ M \cap N = {}
      /\ \A f \in T : f \in M \/ \E g \in S \cup L : Same(f, g)
      /\ D \subseteq (C \ L) \cup N
      /\ \A f \in M \cup N : f.rev \in c + 1 .. d
      /\ \A f, g \in M \cup N : f.rev = g.rev => f = g
  BY DEF Carries
<1> USE <1>a
<1>0. \A f \in S \cup C \cup T \cup D : f.rev \in Nat \ {0}
  BY BacklogAssumption DEF File
<1>1. \A f \in T \cup D : f \in M \cup N \/ \E g \in S \cup C : Same(f, g)
  BY DEF Same
<1>2. \A f \in M \cup N : c < f.rev /\ f.rev <= d
  OBVIOUS
<1>3. \A f \in T \cup D : f.rev <= c => f \notin M \cup N
  BY <1>0, <1>2
<1>4. \A f \in T \cup D : f \notin M \cup N => f.rev <= c
  BY <1>1 DEF Revs, Same
<1>5. \A f \in T \cup D : f.rev <= d
  BY <1>0, <1>2, <1>4
<1>6. \A f, g \in T \cup D : f.rev = g.rev => f.item = g.item
  <2> SUFFICES ASSUME NEW f \in T \cup D, NEW g \in T \cup D, f.rev = g.rev
               PROVE  f.item = g.item
    OBVIOUS
  <2>1. CASE f \in M \cup N
    <3>1. g \in M \cup N
      BY <1>0, <1>2, <1>4, <2>1
    <3> QED
      BY <2>1, <3>1
  <2>2. CASE f \notin M \cup N
    <3>1. g \notin M \cup N
      BY <1>0, <1>2, <1>4, <2>2
    <3>2. PICK h \in S \cup C : Same(f, h)
      BY <1>1, <2>2
    <3>3. PICK k \in S \cup C : Same(g, k)
      BY <1>1, <3>1
    <3>4. h.rev = k.rev /\ f.item = h.item /\ g.item = k.item
      BY <3>2, <3>3 DEF Same
    <3>5. h.item = k.item
      BY <3>4 DEF Revs
    <3> QED
      BY <3>4, <3>5
  <2> QED
    BY <2>1, <2>2
<1>7. \A f \in D, g \in T : f.rev # g.rev
  <2> SUFFICES ASSUME NEW f \in D, NEW g \in T, f.rev = g.rev PROVE FALSE
    OBVIOUS
  <2>1. CASE f \in N
    <3>1. g \in M \cup N
      BY <1>0, <1>2, <1>4, <2>1
    <3>2. g = f
      BY <2>1, <3>1
    <3>3. g \notin M /\ g.rev > c
      BY <1>2, <2>1, <3>2
    <3>4. PICK h \in S \cup C : Same(g, h)
      BY <3>3
    <3>5. h.rev <= c /\ h.rev \in Nat /\ h.rev = g.rev
      BY <1>0, <3>4 DEF Revs, Same
    <3> QED
      BY <3>3, <3>5
  <2>2. CASE f \in C \ L
    <3>1. f.rev <= c
      BY <2>2 DEF Revs
    <3>2. g \notin M
      BY <1>0, <1>2, <3>1
    <3>3. PICK h \in S \cup L : Same(g, h)
      BY <3>2
    <3>4. CASE h \in S
      BY <2>2, <3>3, <3>4 DEF Revs, Same
    <3>5. CASE h \in L
      <4>1. f = h
        BY <2>2, <3>3, <3>5 DEF Revs, Same
      <4> QED
        BY <2>2, <3>5, <4>1
    <3> QED
      BY <3>3, <3>4, <3>5
  <2> QED
    BY <2>1, <2>2
<1>8. \A f, g \in D : f.rev = g.rev => f = g
  <2> SUFFICES ASSUME NEW f \in D, NEW g \in D, f.rev = g.rev PROVE f = g
    OBVIOUS
  <2>1. CASE f \in N /\ g \in N
    BY <2>1
  <2>2. CASE f \in C /\ g \in C
    BY <2>2 DEF Revs
  <2>3. CASE (f \in N /\ g \in C) \/ (f \in C /\ g \in N)
    BY <1>0, <1>2, <2>3 DEF Revs
  <2> QED
    BY <2>1, <2>2, <2>3
<1>9. Revs(T, D, d)
  BY <1>5, <1>6, <1>7, <1>8 DEF Revs
<1>10. ASSUME NEW o, NEW q, Quotes(o, S, C, c), SameQuote(o, q) PROVE Quotes(q, T, D, d)
  <2>1. /\ o.quoted \in 0..c
        /\ o.old # <<>> => o.old[1] = o.file.n
        /\ o.quoted = 0 => o.old = <<>>
        /\ o.quoted # 0 => o.file.item # 0
        /\ \A g \in S \cup C : g.rev = o.quoted => g.item = o.file.item
        /\ \A g \in C : g.rev # o.quoted
    BY <1>10 DEF Quotes
  <2>2. q.quoted \in 0..d
    BY <1>10, <2>1 DEF SameQuote
  <2>3. \A g \in M \cup N : g.rev # o.quoted
    BY <1>2, <2>1
  <2>4. ASSUME NEW g \in T \cup D, g.rev = o.quoted
        PROVE  o.quoted # 0 /\ g.item = o.file.item
    <3>1. PICK h \in S \cup C : Same(g, h)
      BY <1>1, <2>3, <2>4
    <3> QED
      BY <1>0, <2>1, <2>4, <3>1 DEF Same
  <2>5. \A g \in D : g.rev # o.quoted
    BY <2>1, <2>3
  <2> QED
    BY <1>10, <2>1, <2>2, <2>4, <2>5 DEF Quotes, SameQuote
<1> QED
  BY <1>9, <1>10

LEMMA FileNumbers == \A f \in File : /\ f.rev \in Nat /\ f.item \in Nat /\ f.n \in Nat
                                     /\ f.rev # 0 /\ f.item # 0
<1>1. 1..MaxWrites \subseteq Nat \ {0} /\ Numbers \subseteq Nat
  BY BacklogAssumption DEF Numbers
<1>2. \A f \in File : f.rev \in 1..MaxWrites /\ f.item \in 1..MaxWrites /\ f.n \in Numbers
  BY DEF File
<1> QED
  BY <1>1, <1>2

LEMMA ReadQuotes ==
  ASSUME NEW S \in SUBSET File, NEW C \in SUBSET File, NEW c \in Nat, Revs(S, C, c),
         NEW f \in S, NEW o, o.quoted = f.rev, o.old = Path(f), o.file.n = f.n,
         o.file.item = f.item
  PROVE  Quotes(o, S, C, c)
<1>1. f.rev <= c /\ f.rev \in Nat /\ f.rev # 0 /\ f.item # 0
  BY FileNumbers DEF Revs
<1>2. Path(f)[1] = f.n
  BY DEF Path
<1>3. o.old[1] = o.file.n
  BY <1>2
<1>4. o.quoted \in 0..c /\ o.quoted # 0
  BY <1>1
<1>5. /\ \A g \in S \cup C : g.rev = o.quoted => g.item = o.file.item
      /\ \A g \in C : g.rev # o.quoted
  BY DEF Revs
<1> QED
  BY <1>1, <1>3, <1>4, <1>5 DEF Quotes

LEMMA RangeIn ==
  ASSUME NEW S, NEW s \in Seq(S)
  PROVE  Range(s) \subseteq S
BY EntriesAre DEF Range

LEMMA FilesAre ==
  ASSUME RTypeInv, CommitSeen
  PROVE  Stood \cup Coming \subseteq File /\ clock \in Nat
<1>1. files \subseteq File /\ tmps \subseteq File /\ clock \in Nat
  BY DoctorHas
<1>2. ASSUME pc[Doctor] \in Committing
      PROVE  Seen \cup PutAside \cup ToWrite \subseteq File
  <2>1. CommitOK(op[Doctor])
    BY <1>2, CommitHas
  <2>2. /\ Range(op[Doctor].writes) \subseteq File /\ Range(op[Doctor].replaced) \subseteq File
        /\ Range(op[Doctor].removed) \subseteq File /\ op[Doctor].held \subseteq File
    BY <2>1, RangeIn DEF CommitOK
  <2> QED
    BY <1>2, <2>2 DEF CommitSeen, Seen, PutAside, ToWrite
<1>3. ASSUME pc[Doctor] = "undo"
      PROVE  Seen \cup PutAside \cup ToWrite \subseteq File
  <2>1. /\ Range(op[Doctor].replaced) \subseteq File /\ Range(op[Doctor].removed) \subseteq File
    BY <1>3, UndoHas, RangeIn DEF UndoOK
  <2>2. pc[Doctor] \notin Committing
    BY <1>3 DEF Committing
  <2> QED
    BY <1>3, <2>1, <2>2 DEF Seen, PutAside, ToWrite
<1>4. ASSUME pc[Doctor] \notin Committing \cup {"undo"}
      PROVE  Seen \cup PutAside \cup ToWrite \subseteq File
  BY <1>4 DEF Seen, PutAside, ToWrite
<1> QED
  BY <1>1, <1>2, <1>3, <1>4 DEF Stood, Coming

LEMMA FilesWillBe ==
  ASSUME RTypeInv', CommitSeen'
  PROVE  Stood' \cup Coming' \subseteq File /\ clock' \in Nat
<1>1. (RTypeInv /\ CommitSeen => Stood \cup Coming \subseteq File /\ clock \in Nat)'
  BY FilesAre, PTL
<1> QED
  BY <1>1

(* What p quotes after a step is what it quoted, or new and as it should be.*)
QuoteKept(p) == pc'[p] \in Changes =>
    \/ pc[p] \in Changes /\ SameQuote(op[p], op'[p])
    \/ Quotes(op'[p], Stood', Coming', clock')

(* The same for a step of p or of git, in terms of the files.              *)
Aside == pc'[Doctor] = pc[Doctor] /\ op'[Doctor] = op[Doctor]
Typed == RTypeInv /\ RTypeInv' /\ CommitSeen /\ CommitSeen'
Idle(p) == \A q \in Others \ {p} : pc'[q] = pc[q] /\ op'[q] = op[q]

(* From the files F and the temporary ones T to G and U.                   *)
Changed(F, T, c, G, U, d, L, M, N) ==
    /\ c <= d /\ L \in SUBSET T /\ M \cap N = {}
    /\ \A f \in G : f \in M \/ f \in F \/ f \in L
    /\ U \subseteq (T \ L) \cup N
    /\ \A f \in M \cup N : f.rev \in c + 1 .. d
    /\ \A f, g \in M \cup N : f.rev = g.rev => f = g

LEMMA StepCarries ==
  ASSUME Typed, Aside, Sound, NEW L, NEW M, NEW N,
         Changed(files, tmps, clock, files', tmps', clock', L, M, N), L \cap ToWrite = {},
         NEW p, Idle(p), p \in Others => QuoteKept(p) /\ Signed(p)'
  PROVE  Sound'
<1>0. /\ clock <= clock' /\ L \in SUBSET tmps /\ M \cap N = {}
      /\ \A f \in files' : f \in M \/ f \in files \/ f \in L
      /\ tmps' \subseteq (tmps \ L) \cup N
      /\ \A f \in M \cup N : f.rev \in clock + 1 .. clock'
      /\ \A f, g \in M \cup N : f.rev = g.rev => f = g
  BY DEF Changed
<1> USE <1>0
<1>1. /\ Stood \cup Coming \subseteq File /\ Stood' \cup Coming' \subseteq File
      /\ clock \in Nat /\ clock' \in Nat
  BY FilesAre, FilesWillBe DEF Typed
<1>2. Seen' = Seen /\ PutAside' = PutAside /\ ToWrite' = ToWrite
  BY DEF Aside, Seen, PutAside, ToWrite
<1>3. L \in SUBSET Coming
  BY DEF Coming
<1>4. \A f \in Stood' : f \in M \/ f \in Stood \cup L
  BY <1>2 DEF Stood
<1>5. \A f \in Stood' : f \in M \/ \E g \in Stood \cup L : Same(f, g)
  BY <1>4 DEF Same
<1>7. Coming' \subseteq (Coming \ L) \cup N
  BY <1>2 DEF Coming
<1>8. /\ Revs(Stood', Coming', clock')
      /\ \A o, q : Quotes(o, Stood, Coming, clock) /\ SameQuote(o, q)
                     => Quotes(q, Stood', Coming', clock')
  <2>1. Revs(Stood, Coming, clock)
    BY DEF Sound, RevsOK
  <2>2. Carries(Stood, Coming, clock, Stood', Coming', clock', L, M, N)
    BY <1>1, <1>3, <1>5, <1>7 DEF Carries
  <2> QED
    BY <2>1, <2>2, RevsCarry
<1>9. ASSUME NEW q \in Others PROVE QuoteOK(q)' /\ Signed(q)'
  <2>0. QuoteOK(q) /\ Signed(q)
    BY DEF Sound, QuotesOK, OwnWrites
  <2>1. CASE q = p
    BY <1>8, <2>0, <2>1 DEF QuoteOK, QuoteKept
  <2>2. CASE q # p
    <3>1. pc'[q] = pc[q] /\ op'[q] = op[q] /\ SameQuote(op[q], op[q])
      BY <2>2 DEF Idle, SameQuote
    <3> QED
      BY <1>8, <2>0, <3>1 DEF QuoteOK, Signed
  <2> QED
    BY <2>1, <2>2
<1>10. RevsOK' /\ QuotesOK'
  BY <1>8, <1>9 DEF RevsOK, QuotesOK
<1>11. OwnWrites'
  BY <1>2, <1>9 DEF Sound, OwnWrites
<1> QED
  BY <1>10, <1>11 DEF Sound

(* ... of which nothing is new, but what lands.                            *)
LEMMA LessCarries ==
  ASSUME Typed, Aside, Sound, clock' = clock,
         NEW L \in SUBSET tmps, files' \subseteq files \cup L, tmps' \subseteq tmps \ L,
         L \cap ToWrite = {},
         NEW p, Idle(p), p \in Others => QuoteKept(p) /\ Signed(p)'
  PROVE  Sound'
<1> DEFINE None == {}
<1>1. clock <= clock'
  BY FilesAre DEF Typed
<1>2. /\ None \cap None = {} /\ \A f \in files' : f \in None \/ f \in files \/ f \in L
      /\ tmps' \subseteq (tmps \ L) \cup None
      /\ \A f \in None \cup None : f.rev \in clock + 1 .. clock'
      /\ \A f, g \in None \cup None : f.rev = g.rev => f = g
  OBVIOUS
<1> HIDE DEF None
<1>3. Changed(files, tmps, clock, files', tmps', clock', L, None, None)
  BY <1>1, <1>2 DEF Changed
<1> QED
  BY <1>3, StepCarries

LEMMA LookCarries ==
  ASSUME Typed, Aside, Sound, clock' = clock, tmps' \subseteq tmps, files' \subseteq files,
         NEW p, Idle(p), p \in Others => QuoteKept(p) /\ Signed(p)'
  PROVE  Sound'
<1> DEFINE None == {}
<1>1. /\ None \in SUBSET tmps /\ files' \subseteq files \cup None /\ tmps' \subseteq tmps \ None
      /\ None \cap ToWrite = {}
  OBVIOUS
<1> HIDE DEF None
<1> QED
  BY <1>1, LessCarries

(* What the steps of a process do to the files and to its own operation.   *)
LEMMA OthersTouch ==
  ASSUME Typed, NEW p \in Others, StoreStep(p)
  PROVE  Idle(p)
<1>0. /\ pc \in [Processes -> Places] /\ op = [q \in Processes |-> op[q]] /\ p \in Processes
  BY DEF Typed, RTypeInv, TypeInv, Others
<1>1. \/ \E place : pc' = [pc EXCEPT ![p] = place]
      \/ UNCHANGED pc
  BY DEF StoreStep, Allocate, ReadCounter, StageCounter, LandCounter, Guard, Refuse, Rediscover, Crash,
         ReadChecked, Stage, Land, Unlink, RemoveFile, Goto, Return
<1>2. \/ \E X : op' = [op EXCEPT ![p] = X]
      \/ UNCHANGED op
  <2>1. CASE Stage(p)
    BY <2>1, SlotIs DEF Stage
  <2>2. CASE ~Stage(p)
    BY <2>2 DEF StoreStep, Allocate, ReadCounter, StageCounter, LandCounter, Guard, Refuse, Rediscover, Crash,
           ReadChecked, Land, Unlink, RemoveFile, Goto, Return
  <2> QED
    BY <2>1, <2>2
<1> QED
  BY <1>0, <1>1, <1>2 DEF Idle, Others

(* The steps that look, or that move on without the files.                 *)
Quiet(p) ==
    \/ \E t \in Titles : Allocate(p, t)
    \/ ReadCounter(p) \/ StageCounter(p) \/ LandCounter(p) \/ Guard(p) \/ Refuse(p)
    \/ Rediscover(p) \/ Crash(p)
    \/ \E n \in Numbers, quoted \in 1..clock, t \in Titles,
          kind \in {"edit", "hard delete"} : ReadChecked(p, n, quoted, kind, t)

LEMMA QuietSteps ==
  ASSUME Typed, Aside, Sound, NEW p \in Others,
         Quiet(p)
  PROVE  /\ Sound'
         /\ UNCHANGED <<files, clock, acked, clobbered>>
         /\ pc[p] # "unlink" \/ pc'[p] = "idle"
         /\ pc'[p] # "unlink"
<1>0. /\ pc \in [Processes -> Places] /\ op = [q \in Processes |-> op[q]] /\ p \in Processes
      /\ clock \in Nat /\ Stood \cup Coming \subseteq File
  BY FilesAre DEF Typed, RTypeInv, TypeInv, Others
<1>1. UNCHANGED <<files, clock, acked, clobbered>> /\ tmps' \subseteq tmps
  <2>1. CASE Refuse(p)
    BY <2>1 DEF Refuse
  <2>2. CASE ~Refuse(p)
    BY <2>2 DEF Quiet, Allocate, ReadCounter, StageCounter, LandCounter, Guard, Rediscover, Crash,
            ReadChecked
  <2> QED
    BY <2>1, <2>2
<1>a. clock \in Nat /\ clock' = clock
  BY <1>0, <1>1
<1>2. Idle(p)
  BY OthersTouch DEF StoreStep, Quiet
<1>3. Stood' = Stood /\ Coming' \subseteq Coming
  BY <1>1 DEF Stood, Coming, Seen, PutAside, ToWrite, Aside
<1>4. CASE Guard(p)
  <2>1. CASE Claims(op[p].n) = {}
    <3>1. pc'[p] = "stage" /\ pc[p] = "guard"
      BY <1>0, <1>4, <2>1 DEF Guard, Goto
    <3>a. PICK f : op'[p] = [kind |-> "create", quoted |-> 0, old |-> <<>>, file |-> f]
                   /\ f.writer = p
      BY <1>0, <1>4, <2>1 DEF Guard
    <3>b. op'[p].quoted = 0 /\ op'[p].old = <<>> /\ op'[p].file.writer = p
      BY <3>a
    <3>2. \A g \in Stood \cup Coming : g.rev # 0
      BY <1>0, FileNumbers
    <3>3. QuoteKept(p) /\ Signed(p)'
      <4>1. /\ op'[p].quoted \in 0..clock'
            /\ \A g \in Stood' \cup Coming' : g.rev # op'[p].quoted
        BY <1>a, <1>3, <3>b, <3>2
      <4> QED
        BY <3>b, <4>1 DEF QuoteKept, Quotes, Signed
    <3>4. Sound'
      BY <1>0, <1>1, <1>2, <3>3, LookCarries
    <3> QED
      BY <1>1, <3>1, <3>4
  <2>2. CASE Claims(op[p].n) # {}
    <3>1. pc'[p] = "idle"
      BY <1>0, <1>4, <2>2 DEF Guard, Return, Goto
    <3>2. QuoteKept(p) /\ Signed(p)'
      BY <3>1 DEF QuoteKept, Changes, Signed
    <3> QED
      BY <1>0, <1>1, <1>2, <3>1, <3>2, LookCarries
  <2> QED
    BY <2>1, <2>2
<1>5. ASSUME NEW m \in Numbers, NEW r \in 1..clock, NEW t \in Titles,
             NEW k \in {"edit", "hard delete"}, ReadChecked(p, m, r, k, t)
      PROVE  /\ pc[p] = "idle" /\ pc'[p] # "unlink" /\ QuoteKept(p) /\ Signed(p)'
  <2>1. PICK f \in files :
           /\ Locate(p, m) = {f} /\ Matches(r, f)
           /\ op' = [op EXCEPT ![p] = [kind |-> k, quoted |-> r, old |-> Path(f),
                                       file |-> [f EXCEPT !.title = t, !.writer = p]]]
           /\ Goto(p, IF k = "hard delete" THEN "remove" ELSE "stage")
           /\ pc[p] = "idle"
    BY <1>5 DEF ReadChecked
  <2>2. f \in File /\ f \in Stood
    BY <1>0 DEF Stood
  <2>3. op'[p].quoted = f.rev
    BY <1>0, <2>1, <2>2 DEF Matches
  <2>b. op'[p].file.n = f.n /\ op'[p].file.item = f.item /\ op'[p].file.writer = p
    BY <1>0, <2>1, <2>2 DEF File
  <2>a. op'[p].old = Path(f)
    BY <1>0, <2>1
  <2>7. pc'[p] \in {"remove", "stage"}
    BY <1>0, <2>1 DEF Goto
  <2>8. pc[p] = "idle" /\ pc'[p] # "unlink"
    BY <2>1, <2>7
  <2>9. QuoteKept(p)
    <3>1. Quotes(op'[p], Stood, Coming, clock)
      BY <1>0, <2>2, <2>3, <2>a, <2>b, ReadQuotes DEF Sound, RevsOK
    <3> QED
      BY <1>a, <1>3, <3>1 DEF QuoteKept, Quotes
  <2> QED
    BY <2>b, <2>8, <2>9 DEF Signed
<1>6. CASE \E m \in Numbers, r \in 1..clock, t \in Titles,
              k \in {"edit", "hard delete"} : ReadChecked(p, m, r, k, t)
  <2>1. pc[p] = "idle" /\ pc'[p] # "unlink" /\ QuoteKept(p) /\ Signed(p)'
    BY <1>5, <1>6
  <2> QED
    BY <1>0, <1>1, <1>2, <2>1, LookCarries
<1>7. CASE \/ \E t \in Titles : Allocate(p, t)
           \/ ReadCounter(p) \/ StageCounter(p) \/ LandCounter(p) \/ Refuse(p) \/ Rediscover(p) \/ Crash(p)
  <2>1. /\ pc'[p] \in {"idle", "read counter", "stage counter", "land counter", "guard"}
        /\ pc[p] # "unlink" \/ pc'[p] = "idle"
    BY <1>0, <1>7 DEF Allocate, ReadCounter, StageCounter, LandCounter, Refuse, Rediscover, Crash, Goto, Return
  <2>2. QuoteKept(p) /\ Signed(p)'
    BY <2>1 DEF QuoteKept, Changes, Signed
  <2> QED
    BY <1>0, <1>1, <1>2, <2>1, <2>2, LookCarries
<1> QED
  BY <1>4, <1>6, <1>7 DEF Quiet

(* What another process or git makes of the files: what stood and was there *)
(* to stay is there to stay, or a file of the same item and number is that *)
(* the doctor has not read; and so is what has been written.               *)
Succeeded(f) == \E g \in Stays' \ Seen : g.item = f.item /\ g.n = f.n
OthersKept ==
    /\ \A f \in Stays, a \in acked' : a[1] = f.item => f \in Stays' \/ Succeeded(f)
    /\ \A a \in acked' \ acked : \E g \in Stays' \ Seen : g.item = a[1] /\ g.n = a[2]
    /\ files' = files => /\ acked' \subseteq acked
                         /\ \A q \in Others : pc'[q] = "unlink" => pc[q] = "unlink"

LEMMA UnlinkedBy ==
  ASSUME NEW p, Idle(p), NEW f \in Stays, f \in files', f \notin Stays'
  PROVE  /\ p \in Others /\ pc'[p] = "unlink"
         /\ Path(f) = op'[p].old /\ f.rev = op'[p].quoted
<1>1. PICK q \in Others : pc'[q] = "unlink" /\ Path(f) = op'[q].old /\ f.rev = op'[q].quoted
  BY DEF Stays, Unlinked
<1>2. q = p
  BY <1>1 DEF Stays, Unlinked, Idle
<1> QED
  BY <1>1, <1>2

LEMMA FewerKept ==
  ASSUME NEW p \in Others, Idle(p), pc'[p] # "unlink", acked' \subseteq acked,
         \A f \in Stays, a \in acked' : a[1] = f.item => f \in files'
  PROVE  OthersKept
<1>1. \A f \in Stays : f \in files' => f \in Stays'
  BY UnlinkedBy
<1>2. \A q \in Others : pc'[q] = "unlink" => pc[q] = "unlink"
  BY DEF Idle
<1> QED
  BY <1>1, <1>2 DEF OthersKept

LEMMA QuietKeeps ==
  ASSUME Typed, Aside, Sound, NEW p \in Others, Quiet(p)
  PROVE  Sound' /\ OthersKept
<1>1. /\ Sound' /\ pc'[p] # "unlink"
      /\ UNCHANGED <<files, clock, acked>>
  BY QuietSteps
<1>2. Idle(p)
  BY OthersTouch DEF StoreStep, Quiet
<1>3. OthersKept
  BY <1>1, <1>2, FewerKept DEF Stays
<1> QED
  BY <1>1, <1>3

LEMMA NoLosses ==
  ASSUME NEW p, NEW x, Losses(p, x) = {}
  PROVE  \A g \in At(files, x) : g.rev = op[p].quoted
BY DEF Losses

(* Where p has an operation, its place and its operation are what its step *)
(* says.                                                                   *)
LEMMA SlotOf ==
  ASSUME RTypeInv, NEW p \in Others
  PROVE  /\ pc \in [Processes -> Places] /\ op = [q \in Processes |-> op[q]] /\ p \in Processes
         /\ tmps \subseteq File /\ files \subseteq File /\ OnePerPath(tmps) /\ OnePerPath(files)
BY DEF RTypeInv, TypeInv, TypeOK, Others

LEMMA StageKeeps ==
  ASSUME Typed, Aside, Sound, NEW p \in Others, Stage(p)
  PROVE  Sound' /\ OthersKept
<1> DEFINE f == [op[p].file EXCEPT !.rev = clock', !.item = IF @ = 0 THEN clock' ELSE @]
<1>0. /\ pc \in [Processes -> Places] /\ op = [q \in Processes |-> op[q]] /\ p \in Processes
      /\ clock \in Nat /\ Changing(p) /\ op[p].file \in Draft
  BY SlotOf, FilesAre DEF Typed, RTypeInv, TypeInv, OpOK, Stage
<1>1. /\ clock' = clock + 1 /\ tmps' = Put(tmps, f) /\ op' = [op EXCEPT ![p].file = f]
      /\ pc[p] = "stage" /\ pc' = [pc EXCEPT ![p] = "land"]
      /\ UNCHANGED <<files, acked>>
  BY DEF Stage, Goto
<1>2. /\ f.rev = clock' /\ f.n = op[p].file.n /\ f.writer = op[p].file.writer
      /\ f.item = IF op[p].file.item = 0 THEN clock' ELSE op[p].file.item
  BY <1>0 DEF Draft
<1>3. /\ op'[p].file = f /\ op'[p].quoted = op[p].quoted /\ op'[p].old = op[p].old
      /\ pc'[p] = "land"
  BY <1>0, <1>1 DEF Changing
<1> HIDE DEF f
<1>4. QuoteKept(p) /\ Signed(p)'
  <2>1. Quotes(op[p], Stood, Coming, clock) /\ pc[p] \in Changes
    BY <1>1 DEF Sound, QuotesOK, QuoteOK, Changes
  <2>2. op[p].quoted # 0 => op[p].file.item # 0
    BY <2>1 DEF Quotes
  <2>3. SameQuote(op[p], op'[p])
    BY <1>2, <1>3, <2>2 DEF SameQuote
  <2>4. Signed(p)'
    BY <1>1, <1>2, <1>3 DEF Sound, OwnWrites, Signed
  <2> QED
    BY <2>1, <2>3, <2>4 DEF QuoteKept
<1>5. Idle(p)
  BY OthersTouch DEF StoreStep
<1>6. Sound'
  <2> DEFINE None == {}
             New == {f}
  <2>1. /\ None \in SUBSET tmps /\ None \cap New = {}
        /\ \A g \in files' : g \in None \/ g \in files \/ g \in None
        /\ \A g, h \in None \cup New : g.rev = h.rev => g = h
        /\ None \cap ToWrite = {}
    BY <1>1
  <2>a. tmps' \subseteq (tmps \ None) \cup New
    BY <1>1 DEF Put
  <2>2. \A g \in None \cup New : g.rev \in clock + 1 .. clock'
    BY <1>0, <1>1, <1>2
  <2>3. clock <= clock'
    BY <1>0, <1>1
  <2> HIDE DEF None, New
  <2>4. Changed(files, tmps, clock, files', tmps', clock', None, None, New)
    BY <2>1, <2>a, <2>2, <2>3 DEF Changed
  <2> QED
    BY <1>4, <1>5, <2>1, <2>4, StepCarries
<1>7. OthersKept
  BY <1>1, <1>3, <1>5, FewerKept DEF Stays
<1> QED
  BY <1>6, <1>7

LEMMA LandKeepsUp ==
  ASSUME Typed, Aside, Sound, clobbered' = {}, NEW p \in Others, Land(p)
  PROVE  Sound' /\ OthersKept
<1> DEFINE x == Path(op[p].file)
           staged == At(tmps, x)
<1>0. /\ pc \in [Processes -> Places] /\ op = [q \in Processes |-> op[q]] /\ p \in Processes
      /\ OnePerPath(tmps) /\ Stood \cup Coming \subseteq File
  BY SlotOf, FilesAre DEF Typed
<1>1. pc[p] = "land" /\ Idle(p) /\ clock' = clock
  BY OthersTouch DEF Land, StoreStep
<1>2. Quotes(op[p], Stood, Coming, clock)
  BY <1>1 DEF Sound, QuotesOK, QuoteOK, Changes
<1>3. CASE staged = {}
  <2>1. /\ UNCHANGED <<files, tmps, acked>> /\ pc'[p] = "idle"
    BY <1>0, <1>3 DEF Land, Return, Goto
  <2>2. QuoteKept(p) /\ pc'[p] # "unlink" /\ Signed(p)'
    BY <2>1 DEF QuoteKept, Changes, Signed
  <2>3. OthersKept
    BY <1>1, <2>1, <2>2, FewerKept DEF Stays
  <2> QED
    BY <1>1, <2>1, <2>2, <2>3, LookCarries
<1>4. CASE staged # {}
  <2>1. PICK h : staged = {h}
    BY <1>0, <1>4 DEF At, OnePerPath
  <2>2. /\ files' = (files \ At(files, x)) \cup {h} /\ tmps' = tmps \ {h}
        /\ clobbered' = clobbered \cup Losses(p, x) \cup Supplanted(p, {h})
        /\ acked' = acked \cup {<<op[p].file.item, op[p].file.n>>}
    BY <1>4, <2>1 DEF Land
  <2>3. pc'[p] = "idle" \/ (pc'[p] = "unlink" /\ op'[p] = op[p])
    BY <1>0, <1>4 DEF Land, Return, Goto
  <2>4. h \in tmps /\ Path(h) = x /\ h \in Coming
    BY <2>1 DEF At, Coming
  <2>5. QuoteKept(p) /\ Signed(p)'
    BY <1>1, <2>3 DEF QuoteKept, Changes, SameQuote, Signed
  <2>8. h = op[p].file /\ \A g \in At(files, x) : g.rev = op[p].quoted
    <3>1. Losses(p, x) = {} /\ Supplanted(p, {h}) = {}
      BY <2>2
    <3>2. h = op[p].file
      BY <3>1 DEF Supplanted
    <3> QED
      BY <3>1, <3>2, NoLosses
  <2>6. Sound'
    <3> DEFINE L == {h}
    <3>1. L \in SUBSET tmps /\ files' \subseteq files \cup L /\ tmps' \subseteq tmps \ L
      BY <2>2, <2>4
    <3>2. L \cap ToWrite = {}
      BY <1>1, <2>8 DEF Sound, OwnWrites, Signed, Others
    <3> HIDE DEF L
    <3> QED
      BY <1>1, <2>5, <3>1, <3>2, LessCarries
  <2>7. h \in Stays' \ Seen
    <3>1. h \in files' /\ h \notin files /\ h \notin Seen
      BY <2>2, <2>4 DEF Sound, RevsOK, Revs, Stood
    <3>2. ASSUME NEW q \in Others, pc'[q] = "unlink" PROVE h.rev # op'[q].quoted
      <4>1. pc[q] \in Changes /\ op'[q] = op[q]
        BY <1>1, <2>3, <3>2 DEF Changes, Idle
      <4>2. Quotes(op[q], Stood, Coming, clock)
        BY <4>1 DEF Sound, QuotesOK, QuoteOK
      <4> QED
        BY <2>4, <4>1, <4>2 DEF Quotes
    <3> QED
      BY <3>1, <3>2 DEF Stays, Unlinked
  <2>9. ASSUME NEW f \in Stays, f \notin Stays' PROVE Succeeded(f)
    <3>1. f \in Stood /\ f \in files /\ f.rev # 0
      BY <1>0, FileNumbers DEF Stays, Stood
    <3>2. h.item = op[p].file.item /\ h.n = op[p].file.n
      BY <2>8
    <3>4. CASE f \in At(files, x)
      <4>1. f.rev = op[p].quoted
        BY <2>8, <3>4
      <4>2. Path(f) = Path(h)
        BY <2>4, <3>4 DEF At
      <4>3. f.n = h.n
        BY <4>2 DEF Path
      <4> QED
        BY <1>2, <2>7, <3>1, <3>2, <4>1, <4>3 DEF Succeeded, Quotes
    <3>5. CASE f \notin At(files, x)
      <4>1. f \in files'
        BY <2>2, <3>1, <3>5
      <4>2. pc'[p] = "unlink" /\ Path(f) = op'[p].old /\ f.rev = op'[p].quoted
        BY <1>1, <2>9, <4>1, UnlinkedBy
      <4>3. Path(f) = op[p].old /\ f.rev = op[p].quoted
        BY <2>3, <4>2
      <4>4. Path(f) # <<>> /\ Path(f)[1] = f.n
        BY DEF Path
      <4>5. f.n = h.n /\ f.item = h.item
        BY <1>2, <3>1, <3>2, <4>3, <4>4 DEF Quotes
      <4> QED
        BY <2>7, <4>5 DEF Succeeded
    <3> QED
      BY <3>4, <3>5
  <2>10. \A a \in acked' \ acked : h.item = a[1] /\ h.n = a[2]
    BY <2>2, <2>8
  <2>11. files' # files
    BY <2>2, <2>4 DEF Sound, RevsOK, Revs, Stood
  <2>12. OthersKept
    BY <2>7, <2>9, <2>10, <2>11 DEF OthersKept
  <2> QED
    BY <2>6, <2>12
<1> QED
  BY <1>3, <1>4

LEMMA RemovalsKeep ==
  ASSUME Typed, Aside, Sound, clobbered' = {}, NEW p \in Others, Unlink(p) \/ RemoveFile(p)
  PROVE  Sound' /\ OthersKept
<1>0. /\ pc \in [Processes -> Places] /\ op = [q \in Processes |-> op[q]] /\ p \in Processes
      /\ Stood \cup Coming \subseteq File
  BY SlotOf, FilesAre DEF Typed
<1>1. /\ files' = files \ At(files, op[p].old) /\ clobbered' = clobbered \cup Losses(p, op[p].old)
      /\ pc' = [pc EXCEPT ![p] = "idle"] /\ UNCHANGED <<tmps, clock>>
      /\ pc[p] \in {"unlink", "remove"} /\ acked' \subseteq acked
      /\ pc[p] = "remove" => acked' = {a \in acked : a[1] # op[p].file.item}
  BY DEF Unlink, RemoveFile, Return, Goto
<1>2. Idle(p) /\ pc'[p] = "idle"
  BY <1>0, <1>1, OthersTouch DEF StoreStep
<1>3. QuoteKept(p) /\ Signed(p)'
  BY <1>2 DEF QuoteKept, Changes, Signed
<1>4. Sound'
  BY <1>1, <1>2, <1>3, LookCarries
<1>5. Quotes(op[p], Stood, Coming, clock)
  BY <1>1 DEF Sound, QuotesOK, QuoteOK, Changes
<1>6. ASSUME NEW f \in Stays, NEW a \in acked', a[1] = f.item PROVE f \in files'
  <2> SUFFICES ASSUME f \in At(files, op[p].old) PROVE FALSE
    BY <1>1 DEF Stays
  <2>1. f.rev = op[p].quoted
    BY <1>1, <1>6, NoLosses
  <2>2. f \in files /\ f \in Stood /\ Path(f) = op[p].old
    BY DEF At, Stays, Stood
  <2>3. pc[p] # "unlink"
    BY <2>1, <2>2 DEF Stays, Unlinked
  <2>4. f.item = op[p].file.item
    BY <1>5, <2>1, <2>2 DEF Quotes
  <2> QED
    BY <1>1, <1>6, <2>3, <2>4
<1>7. OthersKept
  BY <1>1, <1>2, <1>6, FewerKept
<1> QED
  BY <1>4, <1>7

LEMMA PullKeeps ==
  ASSUME Typed, Aside, Sound, UNCHANGED <<tmps, pc, op>>,
         clock' = clock + 1, NEW h, h.rev = clock', NEW x,
         \A f \in At(files, x) : f.item = h.item /\ f.n = h.n,
         files' = (files \ At(files, x)) \cup {h},
         acked \subseteq acked', \A a \in acked' \ acked : h.item = a[1] /\ h.n = a[2]
  PROVE  Sound' /\ OthersKept
<1>0. clock \in Nat /\ Stood \cup Coming \subseteq File /\ \A f \in Stood \cup Coming : f.rev \in Nat
  BY FilesAre, FileNumbers DEF Typed
<1>1. \A f \in Stood : f.rev # h.rev
  <2>1. \A f \in Stood : f.rev <= clock
    BY DEF Sound, RevsOK, Revs
  <2> QED
    BY <1>0, <2>1
<1>2. h \notin Seen /\ h \notin files
  BY <1>1 DEF Stood
<1>3. Idle(Doctor) /\ Doctor \notin Others
  BY DEF Idle, Others
<1>4. Sound'
  <2> DEFINE None == {}
             New == {h}
  <2>1. /\ None \in SUBSET tmps /\ New \cap None = {}
        /\ \A f \in files' : f \in New \/ f \in files \/ f \in None
        /\ \A f, g \in New \cup None : f.rev = g.rev => f = g
        /\ None \cap ToWrite = {}
    OBVIOUS
  <2>2. tmps' \subseteq (tmps \ None) \cup None
    OBVIOUS
  <2>3. \A f \in New \cup None : f.rev \in clock + 1 .. clock'
    BY <1>0
  <2>4. clock <= clock'
    BY <1>0
  <2> HIDE DEF None, New
  <2>5. Changed(files, tmps, clock, files', tmps', clock', None, New, None)
    BY <2>1, <2>2, <2>3, <2>4 DEF Changed
  <2> QED
    BY <1>3, <2>1, <2>5, StepCarries
<1>5. h \in Stays'
  <2>1. ASSUME NEW q \in Others, pc'[q] = "unlink" PROVE h.rev # op'[q].quoted
    <3>1. Quotes(op[q], Stood, Coming, clock)
      BY <2>1 DEF Sound, QuotesOK, QuoteOK, Changes
    <3>2. op[q].quoted <= clock /\ op[q].quoted \in Nat
      BY <1>0, <3>1 DEF Quotes
    <3>3. op[q].quoted # clock + 1
      BY <1>0, <3>2
    <3> QED
      BY <3>3
  <2> QED
    BY <2>1 DEF Stays, Unlinked
<1>6. ASSUME NEW f \in Stays, f \notin Stays' PROVE Succeeded(f)
  <2>1. f \in At(files, x)
    <3>1. f \in files /\ f \notin files'
      BY <1>3, <1>6, UnlinkedBy DEF Stays
    <3> QED
      BY <3>1
  <2> QED
    BY <1>2, <1>5, <2>1 DEF Succeeded
<1>7. files' # files
  BY <1>2
<1>8. OthersKept
  BY <1>2, <1>5, <1>6, <1>7 DEF OthersKept
<1> QED
  BY <1>4, <1>8

LEMMA GitKeeps ==
  ASSUME Typed, Aside, Sound, GitStep
  PROVE  Sound' /\ OthersKept
<1>0. files \subseteq File /\ OnePerPath(files)
  BY DEF Typed, RTypeInv, TypeInv, TypeOK
<1>1. ASSUME NEW m \in Numbers, NEW t \in Titles, NEW b \in BOOLEAN, NEW c \in BOOLEAN,
             PullFile(m, t, b, c)
      PROVE  Sound' /\ OthersKept
  <2> DEFINE h == [n |-> m, title |-> t, item |-> clock', rev |-> clock',
                   dated |-> b, broken |-> c, maker |-> "git", writer |-> "git"]
             x == <<m, t>>
  <2>1. /\ UNCHANGED <<tmps, pc, op>> /\ clock' = clock + 1 /\ At(files, x) = {}
        /\ acked' = acked \cup {<<clock', m>>}
    BY <1>1 DEF PullFile
  <2>a. files' = files \cup {h}
    BY <1>1, Zenon DEF PullFile
  <2>2. h.rev = clock' /\ h.item = clock' /\ h.n = m
    OBVIOUS
  <2> HIDE DEF h, x
  <2>3. /\ files' = (files \ At(files, x)) \cup {h} /\ \A f \in At(files, x) : f.item = h.item /\ f.n = h.n
        /\ acked \subseteq acked' /\ \A a \in acked' \ acked : h.item = a[1] /\ h.n = a[2]
    BY <2>1, <2>a, <2>2
  <2> QED
    BY <2>1, <2>2, <2>3, PullKeeps
<1>2. ASSUME NEW f \in files, PullEdit(f)
      PROVE  Sound' /\ OthersKept
  <2> DEFINE h == [f EXCEPT !.rev = clock', !.writer = "git"]
             x == Path(h)
  <2>1. /\ UNCHANGED <<tmps, pc, op, acked>> /\ clock' = clock + 1
        /\ files' = Put(files, h)
    BY <1>2 DEF PullEdit
  <2>2. h.rev = clock' /\ h.item = f.item /\ h.n = f.n /\ x = Path(f)
    BY <1>0 DEF File, Path
  <2> HIDE DEF h
  <2>3. \A g \in At(files, x) : g.item = h.item /\ g.n = h.n
    BY <1>0, <2>2 DEF At, OnePerPath
  <2>4. files' = (files \ At(files, x)) \cup {h}
    BY <2>1 DEF Put
  <2>5. acked \subseteq acked' /\ \A a \in acked' \ acked : h.item = a[1] /\ h.n = a[2]
    BY <2>1
  <2> HIDE DEF x
  <2> QED
    BY <2>1, <2>2, <2>3, <2>4, <2>5, PullKeeps
<1>3. ASSUME NEW f \in files, PullRemoval(f)
      PROVE  Sound' /\ OthersKept
  <2>1. /\ UNCHANGED <<tmps, pc, op, clock>> /\ files' = files \ {f}
        /\ acked' = {a \in acked : a[1] # f.item}
    BY <1>3 DEF PullRemoval
  <2>2. Idle(Doctor) /\ Doctor \notin Others
    BY <2>1 DEF Idle, Others
  <2>3. Sound'
    BY <2>1, <2>2, LookCarries
  <2>4. \A g \in files' : g \in Stays => g \in Stays'
    BY <2>2, UnlinkedBy
  <2>5. \A g \in Stays, a \in acked' : a[1] = g.item => g \in files'
    BY <2>1 DEF Stays
  <2>6. OthersKept
    BY <2>1, <2>4, <2>5 DEF OthersKept
  <2> QED
    BY <2>3, <2>6
<1> QED
  BY <1>1, <1>2, <1>3 DEF GitStep

LEMMA StoreKeeps ==
  ASSUME Typed, Aside, Sound, clobbered' = {}, NEW p \in Others, StoreStep(p)
  PROVE  Sound' /\ OthersKept
<1>1. CASE Quiet(p)
  BY <1>1, QuietKeeps
<1>2. CASE Stage(p)
  BY <1>2, StageKeeps
<1>3. CASE Land(p)
  BY <1>3, LandKeepsUp
<1>4. CASE Unlink(p) \/ RemoveFile(p)
  BY <1>4, RemovalsKeep
<1> QED
  BY <1>1, <1>2, <1>3, <1>4 DEF StoreStep, Quiet

(* What is lost stays lost.                                                *)
LEMMA ClearBefore ==
  ASSUME [RNext]_vars, Clear'
  PROVE  Clear
<1>1. ASSUME NEW p, StoreStep(p) PROVE clobbered \subseteq clobbered'
  BY <1>1 DEF StoreStep, Allocate, ReadCounter, StageCounter, LandCounter, Guard, ReadChecked,
     Refuse, Stage, Land, Unlink, RemoveFile, Rediscover, Crash
<1>2. ASSUME GitStep PROVE clobbered \subseteq clobbered'
  BY <1>2 DEF GitStep, PullFile, PullEdit, PullRemoval
<1>3. ASSUME NEW step, Bystander(step) PROVE trampled => trampled'
  BY <1>3, Zenon DEF Bystander
<1>4. CASE (\E p \in Processes \ {Doctor} : Bystander(StoreStep(p))) \/ Bystander(GitStep)
  BY <1>1, <1>2, <1>4 DEF Bystander, Clear
<1>5. CASE UNCHANGED vars
  BY <1>5 DEF vars, storeVars, Clear
<1>6. CASE DoctorDies
  <2>1. trampled => trampled'
    BY <1>6, Zenon DEF DoctorDies
  <2> QED
    BY <1>6, <2>1 DEF DoctorDies, Clear
<1>7. ASSUME DoctorStep PROVE (trampled => trampled') /\ clobbered \subseteq clobbered'
  <2>1. CASE \/ GiveNumber(Doctor) \/ Prepare(Doctor) \/ CommitRead(Doctor)
             \/ CommitStage(Doctor) \/ ConfigRead(Doctor) \/ ConfigStage(Doctor)
             \/ RemoveRead(Doctor)
    <3>1. UNCHANGED history
      BY <2>1, Zenon DEF GiveNumber, Prepare, CommitRead, CommitStage, ConfigRead, ConfigStage,
         RemoveRead
    <3> QED
      BY <3>1 DEF history
  <2>a. CASE \/ Open(Doctor) \/ FindDuplicates(Doctor) \/ GiveUp(Doctor)
             \/ Applied(Doctor) \/ CommitFails(Doctor)
    <3>1. UNCHANGED <<clobbered, trampled>>
      BY <2>a, Zenon DEF Open, FindDuplicates, GiveUp, Applied, CommitFails
    <3> QED
      BY <3>1
  <2>2. CASE CommitLand(Doctor) \/ CommitRemove(Doctor)
    <3>1. trampled' = trampled
      BY <2>2, Zenon DEF CommitLand, CommitRemove
    <3>2. ASSUME CommitLand(Doctor) PROVE clobbered \subseteq clobbered'
      BY <3>2 DEF CommitLand
    <3>3. ASSUME CommitRemove(Doctor) PROVE clobbered \subseteq clobbered'
      BY <3>3 DEF CommitRemove
    <3> QED
      BY <2>2, <3>1, <3>2, <3>3
  <2>3. CASE ConfigLand(Doctor)
    <3>1. trampled => trampled'
      BY <2>3, Zenon DEF ConfigLand
    <3> QED
      BY <2>3, <3>1 DEF ConfigLand
  <2>4. ASSUME NEW ok \in BOOLEAN,
               \/ UndoReplaced(Doctor, ok) \/ UndoConfig(Doctor, ok)
               \/ UndoRemoved(Doctor, ok) \/ UndoCreated(Doctor, ok)
        PROVE  (trampled => trampled') /\ clobbered \subseteq clobbered'
    <3>1. Tried(Doctor, ok)
      BY <2>4 DEF UndoReplaced, UndoConfig, UndoRemoved, UndoCreated
    <3>2. trampled => trampled'
      BY <3>1 DEF Tried
    <3>3. clobbered \subseteq clobbered'
      BY <2>4 DEF UndoReplaced, UndoConfig, UndoRemoved, UndoCreated, WriteBack
    <3> QED
      BY <3>2, <3>3
  <2>5. CASE RolledBack(Doctor)
    <3>1. trampled => trampled'
      BY <2>5, Zenon DEF RolledBack
    <3> QED
      BY <2>5, <3>1 DEF RolledBack
  <2> QED
    BY <1>7, <2>1, <2>a, <2>2, <2>3, <2>4, <2>5 DEF DoctorStep
<1>8. CASE DoctorStep
  BY <1>7, <1>8 DEF Clear
<1> QED
  BY <1>4, <1>5, <1>6, <1>8 DEF RNext

(* With the redirects there still, all that led leads on.                  *)
LEMMA OthersLead ==
  ASSUME RTypeInv, RTypeInv', Leading, Clear, Clear',
         (\E p \in Others : Bystander(StoreStep(p))) \/ Bystander(GitStep)
  PROVE  Leading'
<1>1. /\ (\E p \in Others : StoreStep(p)) \/ GitStep
      /\ trampled' = (trampled \/ RedirectLost(yaml, yaml'))
      /\ (before' = before /\ files' = files /\ outcome' = outcome)
           \/ (before' = <<>> /\ outcome' = "none")
  BY DEF Bystander
<1>2. Aside
  BY <1>1, Untouched DEF Aside, Others
<1>3. Seen' = Seen /\ Answer' = Answer /\ CommitSeen'
  BY <1>2 DEF Leading, CommitSeen, Seen, Answer, Aside
<1>4. Sound' /\ OthersKept
  <2>1. Typed /\ Sound /\ clobbered' = {}
    BY <1>3 DEF Typed, Leading, Clear
  <2> QED
    BY <1>1, <1>2, <2>1, StoreKeeps, GitKeeps
<1>5. Extends(yaml.redirects, yaml'.redirects)
  BY <1>1 DEF Clear, RedirectLost, Extends
<1>6. /\ Safe \subseteq Stays /\ \A f \in Safe \cap Stays' : f \in Safe'
      /\ Stays' \ Seen \subseteq Safe' /\ Kept \subseteq Stays
      /\ Kept' = IF pc[Doctor] \in Removing THEN Safe' ELSE Stays'
      /\ Kept = IF pc[Doctor] \in Removing THEN Safe ELSE Stays
  BY <1>2, <1>3 DEF Safe, Stays, Doomed, Kept, Aside
<1>7. ASSUME NEW a \in acked'
      PROVE  /\ Follows(Safe, Safe', a[1]) /\ Follows(Kept, Kept', a[1])
             /\ a \notin acked => Led(Safe', yaml'.redirects, a) /\ Led(Kept', yaml'.redirects, a)
  <2>1. \A f \in Stays : f.item = a[1] => f \in Stays' \/ Succeeded(f)
    BY <1>4, <1>7 DEF OthersKept
  <2>2. \A f \in Safe : f.item = a[1] => f \in Safe' \/ \E g \in Safe' : g.item = f.item /\ g.n = f.n
    BY <1>6, <2>1 DEF Succeeded
  <2>3. \A f \in Stays : f.item = a[1] => f \in Stays' \/ \E g \in Stays' : g.item = f.item /\ g.n = f.n
    BY <2>1 DEF Succeeded
  <2>4. Follows(Safe, Safe', a[1]) /\ Follows(Kept, Kept', a[1])
    BY <1>6, <2>2, <2>3 DEF Follows
  <2>5. ASSUME a \notin acked PROVE Led(Safe', yaml'.redirects, a) /\ Led(Kept', yaml'.redirects, a)
    <3>1. PICK g \in Stays' \ Seen : g.item = a[1] /\ g.n = a[2]
      BY <1>4, <1>7, <2>5 DEF OthersKept
    <3>2. g \in Safe' /\ g \in Kept' /\ Leads(yaml'.redirects, a[2], g.n)
      BY <1>6, <3>1, LeadsToItself
    <3> QED
      BY <3>1, <3>2 DEF Led
  <2> QED
    BY <2>4, <2>5
<1>8. AllLed'
  <2> SUFFICES ASSUME pc[Doctor] # "undo", NEW a \in acked' PROVE Led(Kept', yaml'.redirects, a)
    BY <1>2 DEF AllLed, Aside
  <2>1. CASE a \in acked
    <3>1. Led(Kept, yaml.redirects, a)
      BY <2>1 DEF Leading, AllLed
    <3> QED
      BY <1>5, <1>7, <3>1, LedOn
  <2> QED
    BY <1>7, <2>1
<1>9. MovedLed'
  <2> SUFFICES ASSUME pc[Doctor] \in Fore, ~RedirectShared(op[Doctor].removes),
                      NEW s \in Seen, ~Pending(s)', NEW a \in acked', a[1] = s.item
               PROVE  \/ Led(Safe', yaml'.redirects, a)
                      \/ \E f \in Safe' : f.item = s.item /\ f.n = Target(s)'
    BY <1>2, <1>3 DEF MovedLed, Aside
  <2>1. Target(s)' = Target(s) /\ ~Pending(s)
    BY <1>2 DEF Target, Pending, Aside
  <2>2. CASE a \in acked
    <3>1. \/ Led(Safe, yaml.redirects, a)
          \/ \E f \in Safe : f.item = s.item /\ f.n = Target(s)
      BY <2>1, <2>2 DEF Leading, MovedLed
    <3>2. CASE Led(Safe, yaml.redirects, a)
      BY <1>5, <1>7, <3>2, LedOn
    <3>3. CASE \E f \in Safe : f.item = s.item /\ f.n = Target(s)
      BY <1>7, <2>1, <3>3 DEF Follows
    <3> QED
      BY <3>1, <3>2, <3>3
  <2> QED
    BY <1>7, <2>2
<1>10. BeforeLed'
  <2> SUFFICES ASSUME before' # <<>>, pc[Doctor] # "idle"
               PROVE  /\ \A p \in Others : pc'[p] # "unlink"
                      /\ \A a \in acked' \ Answer :
                           Led(Head(before').files, Head(before').yaml.redirects, a)
    BY <1>2, <1>3 DEF BeforeLed, Aside
  <2>1. before' = before /\ files' = files
    BY <1>1
  <2>2. acked' \subseteq acked /\ \A q \in Others : pc'[q] = "unlink" => pc[q] = "unlink"
    BY <1>4, <2>1 DEF OthersKept
  <2>3. /\ \A p \in Others : pc[p] # "unlink"
        /\ \A a \in acked \ Answer : Led(Head(before).files, Head(before).yaml.redirects, a)
    BY <2>1 DEF Leading, BeforeLed
  <2> QED
    BY <2>1, <2>2, <2>3
<1>11. outcome' # "undo failed"
  BY <1>1 DEF Leading
<1> QED
  BY <1>3, <1>4, <1>8, <1>9, <1>10, <1>11 DEF Leading


-----------------------------------------------------------------------------
(* The doctor's own steps.                                                 *)
LEMMA DoctorCarries ==
  ASSUME Typed, Sound, Idle(Doctor),
         NEW L, NEW N, L \in SUBSET Coming, Coming' \subseteq (Coming \ L) \cup N,
         \A f \in Stood' : \E g \in Stood \cup L : Same(f, g),
         clock <= clock', \A f \in N : f.rev \in clock + 1 .. clock',
         \A f, g \in N : f.rev = g.rev => f = g,
         \A w \in ToWrite' : w.writer = Doctor
  PROVE  Sound'
<1> DEFINE None == {}
<1>1. /\ Stood \cup Coming \subseteq File /\ Stood' \cup Coming' \subseteq File
      /\ clock \in Nat /\ clock' \in Nat
  BY FilesAre, FilesWillBe DEF Typed
<1>2. /\ None \cap N = {} /\ \A f \in None \cup N : f.rev \in clock + 1 .. clock'
      /\ \A f, g \in None \cup N : f.rev = g.rev => f = g
  OBVIOUS
<1>3. \A f \in Stood' : f \in None \/ \E g \in Stood \cup L : Same(f, g)
  OBVIOUS
<1> HIDE DEF None
<1>4. Carries(Stood, Coming, clock, Stood', Coming', clock', L, None, N)
  BY <1>1, <1>2, <1>3 DEF Carries
<1>5. /\ Revs(Stood', Coming', clock')
      /\ \A o, q : Quotes(o, Stood, Coming, clock) /\ SameQuote(o, q)
                     => Quotes(q, Stood', Coming', clock')
  BY <1>4, RevsCarry DEF Sound, RevsOK
<1>6. ASSUME NEW q \in Others PROVE QuoteOK(q)' /\ Signed(q)'
  <2>1. pc'[q] = pc[q] /\ op'[q] = op[q] /\ SameQuote(op[q], op[q])
    BY DEF Idle, Others, SameQuote
  <2>2. QuoteOK(q) /\ Signed(q)
    BY DEF Sound, QuotesOK, OwnWrites
  <2> QED
    BY <1>5, <2>1, <2>2 DEF QuoteOK, Signed
<1> QED
  BY <1>5, <1>6 DEF Sound, RevsOK, QuotesOK, OwnWrites

LEMMA DoctorLooks ==
  ASSUME Typed, Sound, Idle(Doctor), clock' = clock,
         Coming' \subseteq Coming, ToWrite' \subseteq ToWrite,
         \A f \in Stood' : \E g \in Stood : Same(f, g)
  PROVE  Sound'
<1> DEFINE None == {}
<1>1. clock <= clock'
  BY FilesAre DEF Typed
<1>2. /\ None \in SUBSET Coming /\ Coming' \subseteq (Coming \ None) \cup None
      /\ \A f \in None : f.rev \in clock + 1 .. clock'
      /\ \A f, g \in None : f.rev = g.rev => f = g
  OBVIOUS
<1> HIDE DEF None
<1>3. \A f \in Stood' : \E g \in Stood \cup None : Same(f, g)
  OBVIOUS
<1>4. \A w \in ToWrite' : w.writer = Doctor
  BY DEF Sound, OwnWrites
<1> QED
  BY <1>1, <1>2, <1>3, <1>4, DoctorCarries

LEMMA DoctorIdle ==
  ASSUME RTypeInv, NEW place, pc' = [pc EXCEPT ![Doctor] = place],
         op' = [op EXCEPT ![Doctor] = op'[Doctor]]
  PROVE  Idle(Doctor) /\ pc'[Doctor] = place
BY DoctorHas DEF Idle, Others

(* The files that stand and the files to stay, at a step that changes none.*)
LEMMA UnlinkedSame ==
  ASSUME Idle(Doctor)
  PROVE  \A f \in files \cap files' : f \in Unlinked <=> f \in Unlinked'
<1>1. \A q \in Others : pc'[q] = pc[q] /\ op'[q] = op[q]
  BY DEF Idle, Others
<1> QED
  BY <1>1 DEF Unlinked

(* What it goes back to stays what it was.                                 *)
LEMMA BeforeStays ==
  ASSUME Idle(Doctor), BeforeLed, before' = before, pc[Doctor] # "idle",
         acked' \ Answer' \subseteq acked \ Answer
  PROVE  BeforeLed'
<1> SUFFICES ASSUME before # <<>>
             PROVE  /\ \A p \in Others : pc'[p] # "unlink"
                    /\ \A a \in acked' \ Answer' :
                         Led(Head(before).files, Head(before).yaml.redirects, a)
  BY DEF BeforeLed
<1>1. /\ \A p \in Others : pc[p] # "unlink"
      /\ \A a \in acked \ Answer : Led(Head(before).files, Head(before).yaml.redirects, a)
  BY DEF BeforeLed
<1>2. \A p \in Others : pc'[p] # "unlink"
  BY <1>1 DEF Idle, Others
<1> QED
  BY <1>1, <1>2

(* It plans, gives up, is done or dies: nothing on disk changes.           *)
LEMMA StopLeads ==
  ASSUME RTypeInv, RTypeInv', Leading, Idle(Doctor), pc[Doctor] # "undo",
         pc'[Doctor] \notin Committing, pc'[Doctor] # "undo",
         UNCHANGED <<files, tmps, yaml, clock, acked>>, BeforeLed', outcome' # "undo failed"
  PROVE  Leading'
<1>1. Seen' = {} /\ ToWrite' = {} /\ PutAside' = {} /\ CommitSeen' /\ MovedLed'
  BY DEF CommitSeen, MovedLed, Seen, ToWrite, PutAside, Fore, Writing, Configuring, Committing
<1>2. Sound'
  <2>1. Typed /\ Sound
    BY <1>1 DEF Typed, Leading
  <2>2. Stood' \subseteq Stood /\ Coming' \subseteq Coming /\ ToWrite' \subseteq ToWrite
    BY <1>1 DEF Stood, Coming
  <2>3. \A f \in Stood' : \E g \in Stood : Same(f, g)
    BY <2>2 DEF Same
  <2> QED
    BY <2>1, <2>2, <2>3, DoctorLooks
<1>3. AllLed'
  <2> SUFFICES ASSUME NEW a \in acked PROVE Led(Kept', yaml.redirects, a)
    BY DEF AllLed
  <2>1. Led(Kept, yaml.redirects, a)
    BY DEF Leading, AllLed
  <2>2. pc'[Doctor] \notin Removing
    BY DEF Removing, Committing
  <2>3. Kept \subseteq Kept'
    BY <2>2, UnlinkedSame DEF Kept, Safe, Stays
  <2> QED
    BY <2>1, <2>3 DEF Led
<1> QED
  BY <1>1, <1>2, <1>3 DEF Leading

LEMMA OpenLeads ==
  ASSUME RTypeInv, RTypeInv', Leading, Open(Doctor)
  PROVE  Leading'
<1>1. /\ pc' = [pc EXCEPT ![Doctor] = "scan"] /\ pc[Doctor] = "idle" /\ outcome' = "planned"
      /\ op' = [op EXCEPT ![Doctor] = [kind |-> "renumber", read |-> yaml]]
      /\ before' = IF \A p \in Processes : pc[p] = "idle"
                   THEN <<[files |-> files, yaml |-> yaml]>> ELSE <<>>
      /\ UNCHANGED <<files, tmps, yaml, clock, acked>>
  BY DEF Open, Goto
<1>2. Idle(Doctor) /\ pc'[Doctor] = "scan"
  <2>1. op' = [op EXCEPT ![Doctor] = op'[Doctor]]
    BY <1>1, DoctorHas, SlotIs
  <2> QED
    BY <1>1, <2>1, DoctorIdle
<1>3. BeforeLed'
  <2> SUFFICES ASSUME before' # <<>>
               PROVE  /\ \A p \in Others : pc'[p] # "unlink"
                      /\ \A a \in acked : Led(Head(before').files, Head(before').yaml.redirects, a)
    BY <1>1 DEF BeforeLed
  <2>1. \A p \in Processes : pc[p] = "idle"
    BY <1>1
  <2>2. Head(before').files = files /\ Head(before').yaml = yaml
    BY <1>1, <2>1
  <2>3. \A p \in Others : pc'[p] # "unlink"
    BY <1>2, <2>1 DEF Idle, Others
  <2>4. ASSUME NEW a \in acked PROVE Led(files, yaml.redirects, a)
    <3>1. Led(Kept, yaml.redirects, a) /\ Kept \subseteq files
      BY <1>1 DEF Leading, AllLed, Kept, Safe, Stays
    <3> QED
      BY <3>1 DEF Led
  <2> QED
    BY <1>1, <2>2, <2>3, <2>4
<1>4. "scan" \notin Committing
  BY DEF Committing
<1> QED
  BY <1>1, <1>2, <1>3, <1>4, StopLeads

LEMMA PlanLeads ==
  ASSUME RTypeInv, RTypeInv', Leading,
         FindDuplicates(Doctor) \/ GiveNumber(Doctor)
  PROVE  Leading'
<1>1. /\ pc[Doctor] \in {"scan", "plan"}
      /\ UNCHANGED <<files, tmps, yaml, clock, acked, before>>
      /\ outcome' \in {outcome, "none"}
      /\ \E place \in {"idle", "plan", "confirm"} : pc' = [pc EXCEPT ![Doctor] = place]
  <2>1. CASE FindDuplicates(Doctor)
    BY <2>1 DEF FindDuplicates, Return, Goto
  <2>2. CASE GiveNumber(Doctor)
    <3>1. pc[Doctor] = "plan" /\ UNCHANGED <<files, tmps, yaml, clock, acked, before, outcome>>
      BY <2>2 DEF GiveNumber, history
    <3>2. pc' = [pc EXCEPT ![Doctor] = "confirm"] \/ UNCHANGED pc
      BY <2>2, NumberIsNew
    <3> QED
      BY <3>1, <3>2, DoctorHas
  <2> QED
    BY <2>1, <2>2
<1>2. op' = [op EXCEPT ![Doctor] = op'[Doctor]]
  <2>1. CASE FindDuplicates(Doctor)
    <3>1. \E X : op' = [op EXCEPT ![Doctor] = X]
      BY <2>1 DEF FindDuplicates, Return
    <3> QED
      BY <3>1, DoctorHas, SlotIs
  <2>2. CASE GiveNumber(Doctor)
    BY <2>2, NumberIsNew
  <2> QED
    BY <2>1, <2>2
<1>3. PICK place \in {"idle", "plan", "confirm"} : pc' = [pc EXCEPT ![Doctor] = place]
  BY <1>1
<1>4. Idle(Doctor) /\ pc'[Doctor] = place
  BY <1>2, <1>3, DoctorIdle
<1>5. pc[Doctor] \notin Committing /\ pc'[Doctor] \notin Committing /\ pc'[Doctor] # "undo"
  BY <1>1, <1>4 DEF Committing
<1>6. BeforeLed'
  <2>1. Answer = {} /\ Answer' = {}
    BY <1>5 DEF Answer
  <2> QED
    BY <1>1, <1>4, <2>1, BeforeStays DEF Leading
<1>7. outcome' # "undo failed"
  BY <1>1 DEF Leading
<1> QED
  BY <1>1, <1>4, <1>5, <1>6, <1>7, StopLeads

LEMMA EndLeads ==
  ASSUME RTypeInv, RTypeInv', Leading, Clear',
         GiveUp(Doctor) \/ Applied(Doctor) \/ DoctorDies
  PROVE  Leading'
<1>1. /\ pc' = [pc EXCEPT ![Doctor] = "idle"] /\ op' = [op EXCEPT ![Doctor] = NoOp]
      /\ UNCHANGED <<files, tmps, yaml, clock, acked>>
      /\ pc[Doctor] # "undo" /\ outcome' # "undo failed"
  <2>1. CASE GiveUp(Doctor) \/ Applied(Doctor)
    BY <2>1 DEF GiveUp, Applied, Return, Goto, Ends
  <2>2. CASE DoctorDies
    <3>1. trampled' = (trampled \/ before = <<>> \/ pc[Doctor] = "undo")
      BY <2>2, Zenon DEF DoctorDies
    <3>2. /\ pc' = [pc EXCEPT ![Doctor] = "idle"] /\ op' = [op EXCEPT ![Doctor] = NoOp]
          /\ UNCHANGED <<files, tmps, yaml, clock, acked>> /\ outcome' = "none"
      BY <2>2 DEF DoctorDies, Return, Goto
    <3> QED
      BY <3>1, <3>2 DEF Clear
  <2> QED
    BY <2>1, <2>2
<1>2. op' = [op EXCEPT ![Doctor] = op'[Doctor]]
  BY <1>1, DoctorHas, SlotIs
<1>3. Idle(Doctor) /\ pc'[Doctor] = "idle"
  BY <1>1, <1>2, DoctorIdle
<1>4. BeforeLed' /\ "idle" \notin Committing
  BY <1>3 DEF BeforeLed, Committing
<1> QED
  BY <1>1, <1>3, <1>4, StopLeads

(* What it prepares: every file it has read is written again, for the same *)
(* item and under a new number and revision.                               *)
LEMMA PreparedSeen ==
  ASSUME RTypeInv, Prepare(Doctor)
  PROVE  LET o == op'[Doctor]
             plan == op[Doctor].plan
         IN  /\ \A i \in DOMAIN plan :
                  /\ o.writes[i].rev = clock + i
                  /\ <<o.writes[i].item, o.writes[i].n>> \in o.answer
                  /\ o.writes[i].maker = Doctor /\ o.writes[i].writer = Doctor
                  /\ At(files, plan[i].old) \subseteq o.seen
             /\ \A f \in o.seen : /\ f \in files
                                  /\ \E i \in DOMAIN plan : /\ Path(f) = plan[i].old
                                                            /\ o.writes[i].item = f.item
             /\ o.config.redirects = Redirected(yaml.redirects, plan)
             /\ o.held = {}
<1>0. /\ op = [p \in Processes |-> op[p]] /\ files \subseteq File /\ Doctor \in Processes
      /\ OnePerPath(files)
      /\ yaml \in Config
  BY DoctorHas
<1> DEFINE plan == op[Doctor].plan
           found(i) == CHOOSE f \in At(files, plan[i].old) : TRUE
           moved(i) == [found(i) EXCEPT !.n = plan[i].n, !.rev = clock + i,
                                        !.maker = Doctor, !.writer = Doctor]
           writes == [i \in DOMAIN plan |-> moved(i)]
           removes == [i \in DOMAIN plan |-> plan[i].old]
           config == [yaml EXCEPT !.redirects = Redirected(@, plan)]
           answer == {<<moved(i).item, moved(i).n>> : i \in DOMAIN plan}
           seen == {found(i) : i \in DOMAIN plan}
           o == [kind |-> "renumber", writes |-> writes, config |-> config, removes |-> removes,
                 answer |-> answer, seen |-> seen, held |-> {}, replaced |-> <<>>,
                 saved |-> <<>>, removed |-> <<>>, created |-> <<>>]
<1>1. \A i \in DOMAIN plan : ~Unready(plan[i])
  BY DEF Prepare
<1>2. op'[Doctor] = o
  <2>1. op' = [op EXCEPT ![Doctor] = o]
    BY DEF Prepare
  <2> HIDE DEF o
  <2> QED
    BY <1>0, <2>1
<1> HIDE DEF plan
<1>3. ASSUME NEW i \in DOMAIN plan
      PROVE  /\ found(i) \in files /\ Path(found(i)) = plan[i].old
             /\ moved(i).rev = clock + i /\ moved(i).item = found(i).item
             /\ moved(i).maker = Doctor /\ moved(i).writer = Doctor
             /\ At(files, plan[i].old) = {found(i)}
  <2>1. At(files, plan[i].old) # {}
    BY <1>1 DEF Unready
  <2>2. found(i) \in At(files, plan[i].old)
    BY <2>1
  <2>3. found(i) \in files /\ Path(found(i)) = plan[i].old
    BY <2>2 DEF At
  <2>4. found(i) \in File
    BY <1>0, <2>3
  <2> HIDE DEF found
  <2>5. At(files, plan[i].old) = {found(i)}
    BY <1>0, <2>3 DEF At, OnePerPath
  <2> QED
    BY <2>3, <2>4, <2>5 DEF File
<1> HIDE DEF found, moved
<1>4. /\ \A i \in DOMAIN plan : writes[i] = moved(i)
      /\ \A i \in DOMAIN plan : <<moved(i).item, moved(i).n>> \in answer
      /\ \A f \in seen : \E i \in DOMAIN plan : f = found(i)
      /\ \A i \in DOMAIN plan : found(i) \in seen
  OBVIOUS
<1>5. config.redirects = Redirected(yaml.redirects, plan)
  BY <1>0 DEF Config
<1> HIDE DEF writes, removes, config, answer, seen
<1>6. o.writes = writes /\ o.config = config /\ o.answer = answer /\ o.seen = seen
      /\ o.held = {}
  OBVIOUS
<1> HIDE DEF o
<1>7. \A i \in DOMAIN plan : /\ writes[i].rev = clock + i
                             /\ <<writes[i].item, writes[i].n>> \in answer
                             /\ writes[i].maker = Doctor /\ writes[i].writer = Doctor
                             /\ At(files, plan[i].old) \subseteq seen
  BY <1>3, <1>4
<1>8. \A f \in seen : f \in files /\ \E i \in DOMAIN plan : Path(f) = plan[i].old /\ writes[i].item = f.item
  <2> SUFFICES ASSUME NEW f \in seen
               PROVE  f \in files /\ \E i \in DOMAIN plan : Path(f) = plan[i].old /\ writes[i].item = f.item
    OBVIOUS
  <2>1. PICK i \in DOMAIN plan : f = found(i)
    BY <1>4
  <2> QED
    BY <1>3, <1>4, <2>1
<1> QED
  BY <1>2, <1>5, <1>6, <1>7, <1>8 DEF plan

(* Where no two files share a number, a redirect leads to where each goes. *)
LEMMA MappingOf ==
  ASSUME NEW plan, PlanOK(plan), NEW i \in DOMAIN plan,
         \A j \in DOMAIN plan : plan[j].old[1] = plan[i].old[1] => j = i,
         NEW r
  PROVE  Redirected(r, plan)[plan[i].old[1]] = plan[i].n
<1> DEFINE m == plan[i].old[1]
           S == {j \in DOMAIN plan : plan[j].old[1] = m}
<1>1. DOMAIN plan = 1..Len(plan) /\ Len(plan) \in Nat
  BY EntriesAre DEF PlanOK
<1>2. S = {i} /\ i \in Nat
  BY <1>1
<1>3. Max(S) = i
  BY <1>2 DEF Max
<1>4. m \in {plan[j].old[1] : j \in DOMAIN plan}
  OBVIOUS
<1>5. Mapping(plan)[m] = plan[Max(S)].n
  BY <1>4 DEF Mapping
<1>6. m \in DOMAIN Mapping(plan)
  BY <1>4 DEF Mapping
<1> HIDE DEF m, S
<1>7. Redirected(r, plan)[m] = Mapping(plan)[m]
  BY <1>6 DEF Redirected
<1> QED
  BY <1>3, <1>5, <1>7 DEF m
LEMMA PrepareLeads ==
  ASSUME RTypeInv, RTypeInv', Leading, Prepare(Doctor)
  PROVE  Leading'
<1> DEFINE o == op'[Doctor]
           plan == op[Doctor].plan
<1>0. /\ pc[Doctor] = "confirm" /\ pc' = [pc EXCEPT ![Doctor] = "write"]
      /\ clock' = clock + Len(plan) /\ PlanOK(plan)
      /\ UNCHANGED <<files, tmps, yaml, acked, before, outcome>>
  BY DEF Prepare, Goto, history, RTypeInv, DoctorOK
<1>1. /\ CommitOK(o) /\ op' = [op EXCEPT ![Doctor] = o] /\ o.replaced = <<>> /\ o.removed = <<>>
      /\ DOMAIN o.removes = DOMAIN plan /\ \A i \in DOMAIN plan : o.removes[i] = plan[i].old
      /\ DOMAIN o.writes = DOMAIN plan /\ \A i \in DOMAIN plan : o.writes[i].n = plan[i].n
      /\ \A i \in DOMAIN plan : plan[i].old[1] \in DOMAIN o.config.redirects
  BY PreparedIs
<1>2. /\ \A i \in DOMAIN plan : /\ o.writes[i].rev = clock + i
                                /\ <<o.writes[i].item, o.writes[i].n>> \in o.answer
                                /\ o.writes[i].writer = Doctor
      /\ \A f \in o.seen : /\ f \in files
                           /\ \E i \in DOMAIN plan : /\ Path(f) = plan[i].old
                                                     /\ o.writes[i].item = f.item
      /\ o.config.redirects = Redirected(yaml.redirects, plan) /\ o.held = {}
  BY PreparedSeen
<1>3. Idle(Doctor) /\ pc'[Doctor] = "write"
  BY <1>0, <1>1, DoctorIdle
<1>4. DOMAIN plan = 1..Len(plan) /\ Len(plan) \in Nat /\ clock \in Nat /\ files \subseteq File
  BY <1>0, EntriesAre, FilesAre, DoctorHas DEF PlanOK, Leading
<1>a. Range(o.replaced) = {} /\ Range(o.removed) = {}
  BY <1>1, EmptyIs
<1> HIDE DEF o, plan
<1>5. /\ pc[Doctor] \notin Committing /\ pc[Doctor] # "undo" /\ pc[Doctor] \notin Removing
      /\ pc'[Doctor] \in Committing /\ pc'[Doctor] \in Fore /\ pc'[Doctor] \notin Removing
      /\ Seen' = o.seen /\ ToWrite' = Range(o.writes) /\ PutAside' = {} /\ Answer' = o.answer
  BY <1>0, <1>2, <1>3, <1>a DEF Committing, Writing, Fore, Removing, Seen, ToWrite, PutAside, Answer, o
<1>6. /\ files \subseteq Stood /\ tmps \subseteq Coming /\ Stood' = files
      /\ Coming' = tmps \cup Range(o.writes)
  BY <1>0, <1>2, <1>5 DEF Stood, Coming
<1>7. \A w \in Range(o.writes) : \E i \in DOMAIN plan : w = o.writes[i]
  BY <1>1 DEF Range
<1>8. \A f \in o.seen : Path(f) \in Range(o.removes) /\ f.n \in DOMAIN o.config.redirects
  <2> SUFFICES ASSUME NEW f \in o.seen
               PROVE  Path(f) \in Range(o.removes) /\ f.n \in DOMAIN o.config.redirects
    OBVIOUS
  <2>1. PICK i \in DOMAIN plan : Path(f) = plan[i].old
    BY <1>2
  <2>2. plan[i].old[1] = f.n
    BY <2>1 DEF Path
  <2>3. Path(f) = o.removes[i] /\ i \in DOMAIN o.removes
    BY <1>1, <2>1
  <2>4. Path(f) \in Range(o.removes)
    BY <2>3 DEF Range
  <2> QED
    BY <1>1, <2>2, <2>4
<1>9. CommitSeen'
  <2>1. \A w \in Range(o.writes) : <<w.item, w.n>> \in o.answer
    BY <1>2, <1>7
  <2>2. o.seen \subseteq File
    BY <1>2, <1>4
  <2> QED
    BY <1>8, <2>1, <2>2 DEF CommitSeen, o
<1>10. \A w \in Range(o.writes) : w.rev \in clock + 1 .. clock'
  <2> SUFFICES ASSUME NEW i \in 1..Len(plan) PROVE o.writes[i].rev \in clock + 1 .. clock'
    BY <1>4, <1>7
  <2>1. o.writes[i].rev = clock + i
    BY <1>2, <1>4
  <2>2. clock + i \in clock + 1 .. clock + Len(plan)
    BY <1>4
  <2> QED
    BY <1>0, <2>1, <2>2
<1>11. Sound'
  <2> DEFINE None == {}
             New == Range(o.writes)
  <2>1. /\ None \in SUBSET Coming /\ Coming' \subseteq (Coming \ None) \cup New
        /\ \A f \in Stood' : \E g \in Stood \cup None : Same(f, g)
    BY <1>6 DEF Same
  <2>2. clock <= clock'
    BY <1>0, <1>4
  <2>3. \A f, g \in New : f.rev = g.rev => f = g
    <3> SUFFICES ASSUME NEW i \in 1..Len(plan), NEW j \in 1..Len(plan),
                        o.writes[i].rev = o.writes[j].rev
                 PROVE  i = j
      BY <1>4, <1>7
    <3>1. clock + i = clock + j
      BY <1>2, <1>4
    <3> QED
      BY <1>4, <3>1
  <2>4. \A f \in New : f.rev \in clock + 1 .. clock'
    BY <1>10
  <2>5. \A w \in ToWrite' : w.writer = Doctor
    BY <1>2, <1>5, <1>7
  <2>6. Typed /\ Sound
    BY <1>9 DEF Typed, Leading
  <2> HIDE DEF None, New
  <2> QED
    BY <1>3, <2>1, <2>2, <2>3, <2>4, <2>5, <2>6, DoctorCarries
<1>13. AllLed'
  <2> SUFFICES ASSUME NEW a \in acked PROVE Led(Kept', yaml.redirects, a)
    BY <1>0 DEF AllLed
  <2>1. Led(Kept, yaml.redirects, a)
    BY <1>5 DEF Leading, AllLed
  <2>2. Kept \subseteq Kept'
    BY <1>0, <1>3, <1>5, UnlinkedSame DEF Kept, Stays
  <2> QED
    BY <2>1, <2>2 DEF Led
<1>14. MovedLed'
  <2> SUFFICES ASSUME ~RedirectShared(o.removes), NEW s \in o.seen PROVE Pending(s)'
    BY <1>5 DEF MovedLed, o
  <2>1. PICK i \in DOMAIN plan : Path(s) = plan[i].old /\ o.writes[i].item = s.item
    BY <1>2
  <2>2. \A j \in DOMAIN plan : plan[j].old[1] = plan[i].old[1] => j = i
    BY <1>1 DEF RedirectShared
  <2>3. Redirected(yaml.redirects, plan)[plan[i].old[1]] = plan[i].n
    BY <1>0, <2>2, MappingOf
  <2>4. plan[i].old[1] = s.n
    BY <2>1 DEF Path
  <2>5. o.config.redirects[s.n] = o.writes[i].n
    BY <1>1, <1>2, <2>3, <2>4
  <2>6. o.writes[i] \in Range(o.writes)
    BY <1>1 DEF Range
  <2> QED
    BY <2>1, <2>5, <2>6 DEF Pending, Target, o
<1>15. BeforeLed'
  <2>1. Answer = {} /\ acked' \ Answer' \subseteq acked \ Answer
    BY <1>0, <1>5 DEF Answer
  <2> QED
    BY <1>0, <1>3, <2>1, BeforeStays DEF Leading
<1> QED
  BY <1>0, <1>9, <1>11, <1>13, <1>14, <1>15 DEF Leading

(* It turns back: what it has written is not promised any more.            *)
LEMMA TurnBackLeads ==
  ASSUME RTypeInv, RTypeInv', Leading, pc[Doctor] \in Committing, TurnBack(Doctor),
         tmps' \subseteq tmps, UNCHANGED <<files, clock, before, outcome>>
  PROVE  Leading'
<1>1. /\ op'[Doctor].replaced = op[Doctor].replaced /\ op'[Doctor].removed = op[Doctor].removed
      /\ op' = [op EXCEPT ![Doctor] = op'[Doctor]] /\ pc' = [pc EXCEPT ![Doctor] = "undo"]
  BY TurnBackIs
<1>2. Idle(Doctor) /\ pc'[Doctor] = "undo" /\ "undo" \notin Committing /\ pc[Doctor] # "idle"
  BY <1>1, DoctorIdle DEF Committing
<1>3. /\ Seen' = {} /\ ToWrite' = {} /\ Answer' = {} /\ PutAside' \subseteq PutAside
  BY <1>1, <1>2 DEF Seen, ToWrite, Answer, PutAside
<1>4. CommitSeen' /\ MovedLed' /\ AllLed'
  BY <1>2 DEF CommitSeen, MovedLed, AllLed, Fore, Writing, Configuring
<1>5. Sound'
  <2>1. Typed /\ Sound /\ clock' = clock
    BY <1>4 DEF Typed, Leading
  <2>2. Stood' \subseteq Stood /\ Coming' \subseteq Coming /\ ToWrite' \subseteq ToWrite
    BY <1>3 DEF Stood, Coming
  <2>3. \A f \in Stood' : \E g \in Stood : Same(f, g)
    BY <2>2 DEF Same
  <2> QED
    BY <1>2, <2>1, <2>2, <2>3, DoctorLooks
<1>6. BeforeLed'
  <2>1. acked' = acked \ Answer
    BY DEF TurnBack, Answer
  <2>2. acked' \ Answer' \subseteq acked \ Answer
    BY <2>1
  <2> QED
    BY <1>2, <2>2, BeforeStays DEF Leading
<1> QED
  BY <1>4, <1>5, <1>6 DEF Leading

LEMMA CommitFailsLeads ==
  ASSUME RTypeInv, RTypeInv', Leading, CommitFails(Doctor)
  PROVE  Leading'
<1>1. /\ pc[Doctor] \in Committing /\ TurnBack(Doctor) /\ tmps' \subseteq tmps
      /\ UNCHANGED <<files, clock, before, outcome>>
  BY DEF CommitFails
<1> QED
  BY <1>1, TurnBackLeads

(* It looks, or stages: the files and the redirects stay what they are.    *)
LEMMA LookLeads ==
  ASSUME RTypeInv, RTypeInv', Leading, Idle(Doctor),
         pc[Doctor] \in Committing, pc'[Doctor] \in Committing,
         pc[Doctor] \in Fore <=> pc'[Doctor] \in Fore,
         UNCHANGED <<files, yaml, clock, acked, before, outcome>>,
         Coming' \subseteq Coming, PutAside' \subseteq files \cup PutAside,
         op'[Doctor].writes = op[Doctor].writes, op'[Doctor].config = op[Doctor].config,
         op'[Doctor].answer = op[Doctor].answer, op'[Doctor].seen = op[Doctor].seen,
         Range(op'[Doctor].removes) \subseteq Range(op[Doctor].removes),
         pc[Doctor] \in Fore => op'[Doctor].removes = op[Doctor].removes
  PROVE  Leading'
<1>1. /\ Seen' = Seen /\ ToWrite' = ToWrite /\ Answer' = Answer
      /\ pc[Doctor] \in Removing <=> pc'[Doctor] \in Removing
      /\ pc[Doctor] # "undo" /\ pc'[Doctor] # "undo" /\ pc[Doctor] # "idle"
  BY DEF Seen, ToWrite, Answer, Committing, Fore, Writing, Configuring, Removing
<1>2. CommitSeen'
  BY <1>1 DEF Leading, CommitSeen
<1>3. Sound'
  <2>1. Typed /\ Sound /\ clock' = clock
    BY <1>2 DEF Typed, Leading
  <2>2. Stood' \subseteq Stood /\ ToWrite' \subseteq ToWrite
    BY <1>1 DEF Stood
  <2>3. \A f \in Stood' : \E g \in Stood : Same(f, g)
    BY <2>2 DEF Same
  <2> QED
    BY <2>1, <2>2, <2>3, DoctorLooks
<1>4. Safe \subseteq Safe' /\ Kept \subseteq Kept'
  <2>1. Stays' = Stays
    BY UnlinkedSame DEF Stays, Unlinked
  <2>2. Doomed' \subseteq Doomed
    BY <1>1 DEF Doomed
  <2> QED
    BY <1>1, <2>1, <2>2 DEF Safe, Kept
<1>5. AllLed'
  BY <1>1, <1>4 DEF Leading, AllLed, Led
<1>6. MovedLed'
  <2> SUFFICES ASSUME pc[Doctor] \in Fore, ~RedirectShared(op[Doctor].removes),
                      NEW s \in Seen, ~Pending(s), NEW a \in acked, a[1] = s.item
               PROVE  \/ Led(Safe', yaml.redirects, a)
                      \/ \E f \in Safe' : f.item = s.item /\ f.n = Target(s)
    BY <1>1 DEF MovedLed, Pending, Target
  <2>1. \/ Led(Safe, yaml.redirects, a)
        \/ \E f \in Safe : f.item = s.item /\ f.n = Target(s)
    BY DEF Leading, MovedLed
  <2> QED
    BY <1>4, <2>1 DEF Led
<1>7. BeforeLed'
  BY <1>1, BeforeStays DEF Leading
<1> QED
  BY <1>2, <1>3, <1>5, <1>6, <1>7 DEF Leading

LEMMA ReadingLeads ==
  ASSUME RTypeInv, RTypeInv', Leading, CommitRead(Doctor)
  PROVE  Leading'
<1> DEFINE o == op[Doctor]
           q == op'[Doctor]
           w == Head(o.writes)
<1>1. /\ op' = [op EXCEPT ![Doctor] = q]
      /\ q.writes = o.writes /\ q.removes = o.removes /\ q.config = o.config
      /\ q.answer = o.answer /\ q.seen = o.seen /\ q.held = o.held /\ q.removed = o.removed
      /\ \/ q.replaced = o.replaced
         \/ \E g \in At(files, Path(w)) : Range(q.replaced) = Range(o.replaced) \cup {g}
  BY CommitReadIs
<1>2. /\ pc[Doctor] = "write" /\ pc' = [pc EXCEPT ![Doctor] = "stage write"]
      /\ UNCHANGED <<files, tmps, yaml, clock, acked, before, outcome>>
  BY DEF CommitRead, Goto, history
<1>3. Idle(Doctor) /\ pc'[Doctor] = "stage write"
  BY <1>1, <1>2, DoctorIdle
<1>4. pc[Doctor] \in Committing \cap Fore /\ pc'[Doctor] \in Committing \cap Fore
  BY <1>2, <1>3 DEF Committing, Fore, Writing
<1>5. At(files, Path(w)) \subseteq files
  BY DEF At
<1> HIDE DEF w
<1>6. PutAside' \subseteq files \cup PutAside /\ Coming' \subseteq Coming
  BY <1>1, <1>2, <1>4, <1>5 DEF PutAside, Coming, ToWrite
<1> QED
  BY <1>1, <1>2, <1>3, <1>4, <1>6, LookLeads

LEMMA StagingLeads ==
  ASSUME RTypeInv, RTypeInv', Leading, CommitStage(Doctor) \/ ConfigStage(Doctor)
  PROVE  Leading'
<1> DEFINE w == Head(op[Doctor].writes)
<1>1. /\ op' = op /\ UNCHANGED <<files, yaml, clock, acked, before, outcome>>
      /\ \/ /\ pc[Doctor] = "stage write" /\ pc' = [pc EXCEPT ![Doctor] = "land write"]
            /\ tmps' = Put(tmps, w)
         \/ /\ pc[Doctor] = "stage config" /\ pc' = [pc EXCEPT ![Doctor] = "land config"]
            /\ tmps' = tmps
  BY DEF CommitStage, ConfigStage, Goto, history
<1>2. op' = [op EXCEPT ![Doctor] = op'[Doctor]]
  BY <1>1, DoctorHas, SlotIs
<1>3. Idle(Doctor) /\ pc'[Doctor] \in {"land write", "land config"}
  BY <1>1, <1>2, DoctorIdle
<1>4. pc[Doctor] \in Committing \cap Fore /\ pc'[Doctor] \in Committing \cap Fore
  BY <1>1, <1>3 DEF Committing, Fore, Writing, Configuring
<1>5. tmps' \subseteq tmps \cup ToWrite
  <2>1. CASE pc[Doctor] = "stage write"
    <3>1. op[Doctor].writes # <<>> /\ CommitOK(op[Doctor])
      BY <1>4, <2>1, CommitHas DEF Writing
    <3>2. w \in Range(op[Doctor].writes)
      BY <3>1, TailIs DEF CommitOK
    <3> HIDE DEF w
    <3>3. tmps' = Put(tmps, w)
      BY <1>1, <2>1
    <3> QED
      BY <1>4, <3>2, <3>3 DEF Put, ToWrite
  <2>2. CASE pc[Doctor] # "stage write"
    BY <1>1, <2>2
  <2> QED
    BY <2>1, <2>2
<1>6. PutAside' = PutAside /\ ToWrite' = ToWrite
  BY <1>1, <1>4 DEF PutAside, ToWrite
<1>7. PutAside' \subseteq files \cup PutAside /\ Coming' \subseteq Coming
  BY <1>5, <1>6 DEF Coming
<1>8. op'[Doctor] = op[Doctor] /\ Range(op'[Doctor].removes) \subseteq Range(op[Doctor].removes)
  BY <1>1
<1> HIDE DEF w
<1> QED
  BY <1>1, <1>3, <1>4, <1>7, <1>8, LookLeads

LEMMA ConfigReadLeads ==
  ASSUME RTypeInv, RTypeInv', Leading, ConfigRead(Doctor)
  PROVE  Leading'
<1> DEFINE o == op[Doctor]
           q == op'[Doctor]
<1>0. /\ pc[Doctor] = "config" /\ op' = [op EXCEPT ![Doctor].saved = <<yaml>>]
      /\ pc' = [pc EXCEPT ![Doctor] = "stage config"]
      /\ UNCHANGED <<files, tmps, yaml, clock, acked, before, outcome>>
  BY DEF ConfigRead, Goto, history
<1>1. CommitOK(o)
  BY <1>0, CommitHas DEF Committing
<1>2. q = [o EXCEPT !.saved = <<yaml>>] /\ op' = [op EXCEPT ![Doctor] = q]
  BY <1>0, DoctorHas
<1> HIDE DEF o, q
<1>3. o = [kind |-> o.kind, writes |-> o.writes, config |-> o.config, removes |-> o.removes,
           answer |-> o.answer, seen |-> o.seen, held |-> o.held, replaced |-> o.replaced,
           saved |-> o.saved, removed |-> o.removed, created |-> o.created]
  BY <1>1 DEF CommitOK
<1>4. /\ q.writes = o.writes /\ q.removes = o.removes /\ q.config = o.config
      /\ q.answer = o.answer /\ q.seen = o.seen /\ q.held = o.held
      /\ q.removed = o.removed /\ q.replaced = o.replaced
  BY <1>2, <1>3
<1>5. Idle(Doctor) /\ pc'[Doctor] = "stage config"
  BY <1>0, <1>2, DoctorIdle DEF q
<1>6. pc[Doctor] \in Committing \cap Fore /\ pc'[Doctor] \in Committing \cap Fore
  BY <1>0, <1>5 DEF Committing, Fore, Configuring
<1>7. PutAside' \subseteq files \cup PutAside /\ Coming' \subseteq Coming
  BY <1>0, <1>4, <1>6 DEF PutAside, Coming, ToWrite, o, q
<1> QED
  BY <1>0, <1>4, <1>5, <1>6, <1>7, LookLeads DEF o, q

LEMMA RemoveReadLeads ==
  ASSUME RTypeInv, RTypeInv', Leading, RemoveRead(Doctor)
  PROVE  Leading'
<1> DEFINE o == op[Doctor]
           q == op'[Doctor]
           standing == At(files, Head(o.removes))
<1>0. /\ pc[Doctor] = "removes" /\ o.removes # <<>>
      /\ IF standing = {}
         THEN op' = [op EXCEPT ![Doctor].removes = Tail(@)] /\ pc' = [pc EXCEPT ![Doctor] = "removes"]
         ELSE op' = [op EXCEPT ![Doctor].held = standing] /\ pc' = [pc EXCEPT ![Doctor] = "drop"]
      /\ UNCHANGED <<files, tmps, yaml, clock, acked, before, outcome>>
  BY DoctorHas DEF RemoveRead, Goto, history
<1>1. CommitOK(o)
  BY <1>0, CommitHas DEF Committing
<1>2. /\ op' = [op EXCEPT ![Doctor] = q]
      /\ q = [o EXCEPT !.removes = Tail(@)] \/ q = [o EXCEPT !.held = standing]
  BY <1>0, DoctorHas
<1>3. o = [kind |-> o.kind, writes |-> o.writes, config |-> o.config, removes |-> o.removes,
           answer |-> o.answer, seen |-> o.seen, held |-> o.held, replaced |-> o.replaced,
           saved |-> o.saved, removed |-> o.removed, created |-> o.created]
  BY <1>1 DEF CommitOK
<1>a. Range(Tail(o.removes)) \subseteq Range(o.removes) /\ standing \subseteq files
  BY <1>0, <1>1, TailIs DEF CommitOK, At
<1>5. Idle(Doctor) /\ pc'[Doctor] \in {"removes", "drop"}
  BY <1>0, <1>2, DoctorIdle
<1> HIDE DEF o, q, standing
<1>4. /\ q.writes = o.writes /\ q.config = o.config
      /\ q.answer = o.answer /\ q.seen = o.seen
      /\ q.removed = o.removed /\ q.replaced = o.replaced
      /\ q.removes = o.removes \/ q.removes = Tail(o.removes)
      /\ q.held = o.held \/ q.held = standing
  BY <1>2, <1>3
<1>b. Range(q.removes) \subseteq Range(o.removes) /\ q.held \subseteq o.held \cup files
  BY <1>4, <1>a
<1>6. pc[Doctor] \in Committing \ Fore /\ pc'[Doctor] \in Committing \ Fore
  BY <1>0, <1>5 DEF Committing, Fore, Configuring, Writing
<1>7. PutAside' \subseteq files \cup PutAside /\ Coming' \subseteq Coming
  BY <1>0, <1>4, <1>6, <1>b DEF PutAside, Coming, ToWrite, o, q
<1> QED
  BY <1>0, <1>4, <1>5, <1>6, <1>7, <1>b, LookLeads DEF o, q

(* It lands a file of the plan, under its new number.  Whoever had that    *)
(* path, or has staged something there since, has lost a write.            *)
LEMMA LandingLeads ==
  ASSUME RTypeInv, RTypeInv', Leading, Clear', CommitLand(Doctor)
  PROVE  Leading'
<1> DEFINE o == op[Doctor]
           q == op'[Doctor]
           w == Head(o.writes)
           staged == At(tmps, Path(w))
           previous == At(files, Path(w))
           pair == <<w.item, w.n>>
<1>0. /\ pc[Doctor] = "land write" /\ UNCHANGED <<yaml, clock, before, outcome>>
  BY DEF CommitLand
<1>a. CASE staged = {}
  <2>1. TurnBack(Doctor) /\ UNCHANGED <<files, tmps>>
    BY <1>a DEF CommitLand
  <2> QED
    BY <1>0, <2>1, TurnBackLeads DEF Committing
<1>b. CASE staged # {}
  <2>0. /\ acked' = acked \cup {pair}
        /\ {<<Doctor, g.writer>> : g \in previous} \subseteq clobbered'
        /\ {<<g.writer, Doctor>> : g \in staged \ {w}} \subseteq clobbered'
    BY <1>b DEF CommitLand
  <2>1. /\ op' = [op EXCEPT ![Doctor] = q]
        /\ q.removes = o.removes /\ q.config = o.config
        /\ q.answer = o.answer /\ q.seen = o.seen /\ q.held = o.held
        /\ q.removed = o.removed /\ q.replaced = o.replaced
        /\ Range(o.writes) = {w} \cup Range(q.writes)
        /\ w \in File /\ \A v \in Range(q.writes) : v.n # w.n
        /\ pc' = [pc EXCEPT ![Doctor] = IF q.writes = <<>> THEN "config" ELSE "write"]
        /\ files' = (files \ previous) \cup staged
        /\ tmps' = tmps \ staged
    BY <1>b, CommitLandIs
  <2>2. staged \subseteq tmps
    BY DEF At
  <2> DEFINE place == IF q.writes = <<>> THEN "config" ELSE "write"
  <2>3. place \in {"config", "write"} /\ pc' = [pc EXCEPT ![Doctor] = place]
    BY <2>1
  <2> HIDE DEF o, q, w, staged, previous, pair, place
  <2>4. previous = {} /\ staged = {w}
    BY <1>b, <2>0 DEF Clear
  <2>5. /\ files' = files \cup {w} /\ tmps' = tmps \ {w} /\ w \in tmps
    BY <2>1, <2>2, <2>4
  <2>6. Idle(Doctor) /\ pc'[Doctor] = place
    BY <2>1, <2>3, DoctorIdle DEF q
  <2>7. /\ pc[Doctor] \in Committing \cap Fore /\ pc[Doctor] \notin Removing
        /\ pc'[Doctor] \in Committing \cap Fore /\ pc'[Doctor] \notin Removing
        /\ pc[Doctor] # "undo" /\ pc[Doctor] # "idle"
    BY <1>0, <2>3, <2>6 DEF Committing, Fore, Writing, Configuring, Removing
  <2>8. /\ Seen = o.seen /\ Seen' = o.seen /\ Answer = o.answer /\ Answer' = o.answer
        /\ ToWrite = Range(o.writes) /\ ToWrite' = Range(q.writes) /\ PutAside' = PutAside
    BY <2>1, <2>7 DEF Seen, Answer, ToWrite, PutAside, o, q
  <2>9. w \notin Range(q.writes) /\ w \in Coming /\ ToWrite' \subseteq ToWrite
    BY <2>1, <2>8 DEF Coming
  <2>10. /\ o.seen \subseteq File
         /\ \A v \in Range(o.writes) : <<v.item, v.n>> \in o.answer
         /\ \A s \in o.seen : /\ s.n \in DOMAIN o.config.redirects
                              /\ Path(s) \in Range(o.removes)
    BY <2>7 DEF Leading, CommitSeen, o
  <2>11. CommitSeen'
    <3>1. /\ q.seen \subseteq File
          /\ \A v \in Range(q.writes) : <<v.item, v.n>> \in q.answer
          /\ \A s \in q.seen : /\ s.n \in DOMAIN q.config.redirects
                               /\ Path(s) \in Range(q.removes)
      BY <2>1, <2>10
    <3> QED
      BY <3>1 DEF CommitSeen, q
  <2>12. Sound'
    <3> DEFINE None == {}
               L == {w}
    <3>1. /\ L \in SUBSET Coming /\ Coming' \subseteq (Coming \ L) \cup None
          /\ \A g \in Stood' : g \in Stood \cup L
          /\ \A f \in None : f.rev \in clock + 1 .. clock'
          /\ \A f, g \in None : f.rev = g.rev => f = g
      BY <2>1, <2>5, <2>8, <2>9 DEF Stood, Coming
    <3>2. Typed /\ Sound /\ CommitSeen
      BY <2>11 DEF Leading, Typed
    <3>a. clock \in Nat /\ clock' = clock
      BY <1>0, <3>2, FilesAre
    <3>b. clock <= clock'
      BY <3>a
    <3>3. \A v \in ToWrite' : v.writer = Doctor
      BY <2>9 DEF Leading, Sound, OwnWrites
    <3> HIDE DEF None, L
    <3>4. \A f \in Stood' : \E g \in Stood \cup L : Same(f, g)
      BY <3>1 DEF Same
    <3> QED
      BY <2>6, <3>1, <3>2, <3>b, <3>3, <3>4, DoctorCarries
  <2>13. w \notin Unlinked' /\ w \notin Seen'
    <3>1. ASSUME NEW p \in Others, pc'[p] = "unlink", w.rev = op'[p].quoted PROVE FALSE
      <4>1. pc[p] = "unlink" /\ op'[p] = op[p]
        BY <2>6, <3>1 DEF Idle, Others
      <4>2. Quotes(op[p], Stood, Coming, clock)
        BY <4>1 DEF Leading, Sound, QuotesOK, QuoteOK, Changes
      <4>3. w.rev # op[p].quoted
        BY <2>9, <4>2 DEF Quotes
      <4> QED
        BY <3>1, <4>1, <4>3
    <3>2. \A s \in o.seen : w.rev # s.rev
      BY <2>8, <2>9 DEF Leading, Sound, RevsOK, Revs, Stood
    <3> QED
      BY <2>8, <3>1, <3>2 DEF Unlinked
  <2>14. Safe \subseteq Safe' /\ Kept \subseteq Kept' /\ w \in Safe' /\ w \in Kept'
    <3>1. \A g \in files : g \in Unlinked' => g \in Unlinked
      BY <2>5, <2>6, UnlinkedSame
    <3>2. \A g \in files : g \in Doomed' => g \in Doomed
      BY <2>1, <2>8 DEF Doomed, o, q
    <3>3. w \notin Doomed'
      BY <2>13 DEF Doomed
    <3> QED
      BY <2>5, <2>7, <2>13, <3>1, <3>2, <3>3 DEF Safe, Kept, Stays
  <2>15. ASSUME NEW F, w \in F PROVE Led(F, yaml.redirects, pair)
    BY <2>15, LeadsToItself DEF Led, pair
  <2>16. AllLed'
    <3> SUFFICES ASSUME NEW a \in acked' PROVE Led(Kept', yaml.redirects, a)
      BY <1>0 DEF AllLed
    <3>1. CASE a = pair
      BY <2>14, <2>15, <3>1
    <3>2. CASE a \in acked
      <4>1. Led(Kept, yaml.redirects, a)
        BY <2>7, <3>2 DEF Leading, AllLed
      <4> QED
        BY <2>14, <4>1 DEF Led
    <3> QED
      BY <2>0, <3>1, <3>2
  <2>17. MovedLed'
    <3> SUFFICES ASSUME ~RedirectShared(q.removes), NEW s \in o.seen, ~Pending(s)',
                        NEW a \in acked', a[1] = s.item
                 PROVE  \/ Led(Safe', yaml.redirects, a)
                        \/ \E g \in Safe' : g.item = s.item /\ g.n = Target(s)'
      BY <1>0, <2>8 DEF MovedLed, q
    <3>1. Target(s)' = Target(s)
      BY <2>1 DEF Target, o, q
    <3>2. CASE Pending(s)
      <4>1. PICK v \in Range(o.writes) : v.item = s.item /\ v.n = Target(s)
        BY <3>2 DEF Pending, o
      <4>2. v \notin Range(q.writes)
        BY <3>1, <4>1 DEF Pending, q
      <4>3. v = w
        BY <2>1, <4>1, <4>2
      <4> QED
        BY <2>14, <3>1, <4>1, <4>3
    <3>3. CASE ~Pending(s) /\ a \in acked
      <4>1. \/ Led(Safe, yaml.redirects, a)
            \/ \E g \in Safe : g.item = s.item /\ g.n = Target(s)
        BY <2>1, <2>7, <2>8, <3>3 DEF Leading, MovedLed, o
      <4> QED
        BY <2>14, <3>1, <4>1 DEF Led
    <3>4. CASE a = pair
      BY <2>14, <2>15, <3>4
    <3> QED
      BY <2>0, <3>2, <3>3, <3>4
  <2>18. BeforeLed'
    <3>1. pair \in o.answer
      BY <2>1, <2>10 DEF pair
    <3>2. acked' \ Answer' \subseteq acked \ Answer
      BY <2>0, <2>8, <3>1
    <3> QED
      BY <1>0, <2>6, <2>7, <3>2, BeforeStays DEF Leading
  <2> QED
    BY <1>0, <2>11, <2>12, <2>16, <2>17, <2>18 DEF Leading
<1> QED
  BY <1>a, <1>b

(* project.yaml lands: the files it has moved are led past from here.      *)
LEMMA ConfigLeads ==
  ASSUME RTypeInv, RTypeInv', Leading, Clear', ConfigLand(Doctor)
  PROVE  Leading'
<1> DEFINE o == op[Doctor]
<1>0. /\ pc[Doctor] = "land config" /\ UNCHANGED <<files, tmps, clock, before, outcome>>
  BY DEF ConfigLand
<1>a. CASE ytmp = <<>>
  <2>1. TurnBack(Doctor)
    BY <1>a DEF ConfigLand
  <2> QED
    BY <1>0, <2>1, TurnBackLeads DEF Committing
<1>b. CASE ytmp # <<>>
  <2>1. /\ op' = op /\ acked' = acked /\ pc' = [pc EXCEPT ![Doctor] = "removes"]
    BY <1>b DEF ConfigLand, Goto
  <2>2. ~RedirectLost(yaml, yaml') /\ ~RedirectLost(o.config, yaml') /\ ~RedirectShared(o.removes)
    <3>1. trampled' = (trampled \/ RedirectLost(yaml, yaml') \/ RedirectLost(o.config, yaml')
                         \/ RedirectShared(o.removes))
      BY <1>b, Zenon DEF ConfigLand
    <3> QED
      BY <3>1 DEF Clear
  <2>3. o.writes = <<>>
    BY <1>0, CommitHas DEF Committing, Writing
  <2>4. op' = [op EXCEPT ![Doctor] = op'[Doctor]] /\ op'[Doctor] = o
    BY <2>1, DoctorHas, SlotIs
  <2>5. Idle(Doctor) /\ pc'[Doctor] = "removes"
    BY <2>1, <2>4, DoctorIdle
  <2> HIDE DEF o
  <2>6. /\ pc[Doctor] \in Committing \cap Fore /\ pc[Doctor] \notin Removing
        /\ pc'[Doctor] \in Committing /\ pc'[Doctor] \notin Fore /\ pc'[Doctor] \in Removing
        /\ pc[Doctor] # "undo" /\ pc[Doctor] # "idle"
    BY <1>0, <2>5 DEF Committing, Fore, Writing, Configuring, Removing
  <2>7. /\ Seen = o.seen /\ Seen' = Seen /\ ToWrite' = ToWrite /\ PutAside' = PutAside
        /\ Answer' = Answer /\ Range(o.writes) = {}
    BY <2>3, <2>4, <2>6, EmptyIs DEF Seen, ToWrite, PutAside, Answer, o
  <2>8. CommitSeen' /\ MovedLed'
    <3>1. o.seen \subseteq File /\ \A s \in o.seen : s.n \in DOMAIN o.config.redirects
      BY <2>6 DEF Leading, CommitSeen, o
    <3> QED
      BY <2>4, <2>6, <2>7, <3>1 DEF CommitSeen, MovedLed
  <2>9. Sound'
    <3>1. Typed /\ Sound /\ clock' = clock
      BY <1>0, <2>8 DEF Typed, Leading
    <3>2. Stood' = Stood /\ Coming' = Coming
      BY <1>0, <2>7 DEF Stood, Coming
    <3>3. \A f \in Stood' : \E g \in Stood : Same(f, g)
      BY <3>2 DEF Same
    <3> QED
      BY <2>5, <2>7, <3>1, <3>2, <3>3, DoctorLooks
  <2>10. Safe' = Safe /\ Kept' = Safe /\ Kept = Stays
    <3>1. Unlinked' = Unlinked
      BY <1>0, <2>5, UnlinkedSame DEF Unlinked
    <3>2. Doomed' = Doomed
      BY <1>0, <2>4, <2>7 DEF Doomed, o
    <3> QED
      BY <1>0, <2>6, <3>1, <3>2 DEF Safe, Stays, Kept
  <2>11. AllLed'
    <3> SUFFICES ASSUME NEW a \in acked PROVE Led(Safe, yaml'.redirects, a)
      BY <2>1, <2>10 DEF AllLed
    <3>1. Extends(yaml.redirects, yaml'.redirects) /\ Extends(o.config.redirects, yaml'.redirects)
      BY <2>2 DEF RedirectLost, Extends
    <3>2. PICK f \in Stays : f.item = a[1] /\ Leads(yaml.redirects, a[2], f.n)
      BY <2>6, <2>10 DEF Leading, AllLed, Led
    <3>3. Leads(yaml'.redirects, a[2], f.n)
          /\ (f.n \in DOMAIN yaml'.redirects => Leads(yaml'.redirects, a[2], yaml'.redirects[f.n]))
      BY <3>1, <3>2, LeadsOn
    <3>4. CASE f \notin Doomed
      BY <3>2, <3>3, <3>4 DEF Led, Safe
    <3>5. CASE f \in Doomed
      <4>1. f \in Seen /\ ~Pending(f)
        BY <2>7, <3>5 DEF Doomed, Pending, o
      <4>2. \/ Led(Safe, yaml.redirects, a)
            \/ \E g \in Safe : g.item = f.item /\ g.n = Target(f)
        BY <2>2, <2>6, <3>2, <4>1 DEF Leading, MovedLed, o
      <4>3. CASE Led(Safe, yaml.redirects, a)
        <5>1. Follows(Safe, Safe, a[1])
          BY DEF Follows
        <5> QED
          BY <3>1, <4>3, <5>1, LedOn
      <4>4. CASE \E g \in Safe : g.item = f.item /\ g.n = Target(f)
        <5>1. PICK g \in Safe : g.item = f.item /\ g.n = Target(f)
          BY <4>4
        <5>2. f.n \in DOMAIN o.config.redirects
          BY <2>6, <2>7, <4>1 DEF Leading, CommitSeen, o
        <5>3. f.n \in DOMAIN yaml'.redirects /\ Target(f) = yaml'.redirects[f.n]
          BY <3>1, <5>2 DEF Target, Extends, o
        <5>4. Leads(yaml'.redirects, a[2], g.n)
          BY <3>3, <5>1, <5>3
        <5> QED
          BY <3>2, <5>1, <5>4 DEF Led
      <4> QED
        BY <4>2, <4>3, <4>4
    <3> QED
      BY <3>4, <3>5
  <2>12. BeforeLed'
    <3>1. acked' \ Answer' \subseteq acked \ Answer
      BY <2>1, <2>7
    <3> QED
      BY <1>0, <2>5, <2>6, <3>1, BeforeStays DEF Leading
  <2> QED
    BY <1>0, <2>8, <2>9, <2>11, <2>12 DEF Leading
<1> QED
  BY <1>a, <1>b

LEMMA HeldIsGone ==
  ASSUME RTypeInv, CommitRemove(Doctor), At(files, Head(op[Doctor].removes)) # {}
  PROVE  op'[Doctor].held = {}
<1> DEFINE o == op[Doctor]
           g == CHOOSE g \in o.held : TRUE
<1>1. /\ pc[Doctor] = "drop"
      /\ op' = [op EXCEPT ![Doctor].removes = Tail(@), ![Doctor].held = {},
                          ![Doctor].removed = Append(@, g)]
  BY DEF CommitRemove
<1> HIDE DEF g
<1>2. CommitOK(o)
  BY <1>1, CommitHas DEF Committing
<1>3. op'[Doctor] = [o EXCEPT !.removes = Tail(@), !.held = {}, !.removed = Append(@, g)]
  BY <1>1, DoctorHas
<1> HIDE DEF o
<1>4. o = [kind |-> o.kind, writes |-> o.writes, config |-> o.config, removes |-> o.removes,
           answer |-> o.answer, seen |-> o.seen, held |-> o.held, replaced |-> o.replaced,
           saved |-> o.saved, removed |-> o.removed, created |-> o.created]
  BY <1>2 DEF CommitOK
<1> QED
  BY <1>3, <1>4

(* It removes an old path: what goes there but what it has read is lost to *)
(* somebody.                                                               *)
LEMMA RemoveLeads ==
  ASSUME RTypeInv, RTypeInv', Leading, Clear', CommitRemove(Doctor)
  PROVE  Leading'
<1> DEFINE o == op[Doctor]
           q == op'[Doctor]
           path == Head(o.removes)
           gone == At(files, path)
<1>0. /\ pc[Doctor] = "drop" /\ UNCHANGED <<tmps, yaml, clock, before, outcome>>
  BY DEF CommitRemove
<1>a. CASE gone = {}
  <2>1. TurnBack(Doctor) /\ UNCHANGED files
    BY <1>a DEF CommitRemove
  <2> QED
    BY <1>0, <2>1, TurnBackLeads DEF Committing
<1>b. CASE gone # {}
  <2>0. acked' = acked /\ LostTo(Doctor, gone) \subseteq clobbered'
    BY <1>b DEF CommitRemove
  <2>1. /\ op' = [op EXCEPT ![Doctor] = q]
        /\ q.writes = o.writes /\ q.config = o.config /\ q.answer = o.answer
        /\ q.seen = o.seen /\ q.replaced = o.replaced
        /\ \E g \in o.held : Range(q.removed) = Range(o.removed) \cup {g}
        /\ Range(o.removes) = {path} \cup Range(q.removes)
        /\ path \in Range(o.removes)
        /\ files' = files \ gone
        /\ pc' = [pc EXCEPT ![Doctor] = "removes"]
    BY <1>b, CommitRemoveIs
  <2>2. CommitOK(q) /\ q.held \subseteq {}
    BY <1>b, CommitRemoveIs, HeldIsGone
  <2>3. gone \subseteq files /\ \A g \in gone : Path(g) = path
    BY DEF At
  <2>4. o.writes = <<>>
    BY <1>0, CommitHas DEF Committing, Writing
  <2> HIDE DEF o, q, path, gone
  <2>5. Idle(Doctor) /\ pc'[Doctor] = "removes"
    BY <2>1, DoctorIdle DEF q
  <2>6. /\ pc[Doctor] \in Committing \cap Removing /\ pc'[Doctor] \in Committing \cap Removing
        /\ pc[Doctor] \notin Fore /\ pc'[Doctor] \notin Fore
        /\ pc[Doctor] # "undo" /\ pc[Doctor] # "idle"
    BY <1>0, <2>5 DEF Committing, Fore, Writing, Configuring, Removing
  <2>7. /\ Seen = o.seen /\ Seen' = Seen /\ ToWrite' = ToWrite /\ Answer' = Answer
        /\ PutAside' \subseteq PutAside
    BY <2>1, <2>2, <2>6 DEF Seen, ToWrite, PutAside, Answer, o, q
  <2>8. CommitSeen' /\ MovedLed'
    <3>1. o.seen \subseteq File /\ Range(o.writes) = {}
      BY <2>4, <2>6, EmptyIs DEF Leading, CommitSeen, o
    <3> QED
      BY <2>1, <2>6, <3>1 DEF CommitSeen, MovedLed, q
  <2>9. Sound'
    <3>1. Typed /\ Sound /\ clock' = clock
      BY <1>0, <2>8 DEF Typed, Leading
    <3>2. Stood' \subseteq Stood /\ Coming' = Coming
      BY <1>0, <2>1, <2>7 DEF Stood, Coming
    <3>3. \A f \in Stood' : \E g \in Stood : Same(f, g)
      BY <3>2 DEF Same
    <3> QED
      BY <2>5, <2>7, <3>1, <3>2, <3>3, DoctorLooks
  <2>10. Kept \subseteq Kept'
    <3>1. gone \subseteq o.seen
      BY <2>0 DEF Clear, LostTo, o
    <3>2. gone \subseteq Doomed
      BY <2>1, <2>3, <2>7, <3>1 DEF Doomed, o
    <3>3. \A f \in files' : f \in Unlinked' => f \in Unlinked
      BY <2>1, <2>5, UnlinkedSame
    <3>4. \A f \in files' : f \in Doomed' => f \in Doomed
      BY <2>1, <2>7 DEF Doomed, o, q
    <3> QED
      BY <2>1, <2>6, <3>2, <3>3, <3>4 DEF Safe, Stays, Kept
  <2>11. AllLed'
    <3> SUFFICES ASSUME NEW a \in acked PROVE Led(Kept', yaml.redirects, a)
      BY <1>0, <2>0 DEF AllLed
    <3>1. Led(Kept, yaml.redirects, a)
      BY <2>6 DEF Leading, AllLed
    <3> QED
      BY <2>10, <3>1 DEF Led
  <2>12. BeforeLed'
    <3>1. acked' \ Answer' \subseteq acked \ Answer
      BY <2>0, <2>7
    <3> QED
      BY <1>0, <2>5, <2>6, <3>1, BeforeStays DEF Leading
  <2> QED
    BY <1>0, <2>8, <2>9, <2>11, <2>12 DEF Leading
<1> QED
  BY <1>a, <1>b

(* An access of the rollback that succeeds: what is put back is what it    *)
(* was, but for who wrote it.                                              *)
LEMMA UndoLeads ==
  ASSUME RTypeInv, RTypeInv', Leading, Clear', NEW ok \in BOOLEAN, Tried(Doctor, ok),
         op' = [op EXCEPT ![Doctor] = op'[Doctor]],
         ok => \A f \in files' : \E g \in files \cup PutAside : Same(f, g),
         PutAside' \subseteq PutAside
  PROVE  Leading'
<1>1. /\ pc[Doctor] = "undo" /\ pc' = [pc EXCEPT ![Doctor] = "undo"] /\ ok
      /\ UNCHANGED <<tmps, clock, acked, before, outcome>>
  BY DoctorHas DEF Tried, Clear
<1>2. Idle(Doctor) /\ pc'[Doctor] = "undo"
  BY <1>1, DoctorIdle
<1>3. pc[Doctor] \notin Committing /\ pc'[Doctor] \notin Committing /\ pc'[Doctor] \notin Fore
  BY <1>1, <1>2 DEF Committing, Fore, Writing, Configuring
<1>4. Seen' = {} /\ Seen = {} /\ ToWrite' = {} /\ ToWrite = {} /\ Answer = {} /\ Answer' = {}
  BY <1>3 DEF Seen, ToWrite, Answer
<1>5. CommitSeen' /\ AllLed' /\ MovedLed'
  BY <1>2, <1>3 DEF CommitSeen, AllLed, MovedLed
<1>6. Sound'
  <2>1. Typed /\ Sound /\ clock' = clock
    BY <1>1, <1>5 DEF Typed, Leading
  <2>2. Coming' \subseteq Coming /\ ToWrite' \subseteq ToWrite
    BY <1>1, <1>4 DEF Coming
  <2>3. \A f \in Stood' : \E g \in Stood : Same(f, g)
    <3> SUFFICES ASSUME NEW f \in files' \cup PutAside' PROVE \E g \in files \cup PutAside : Same(f, g)
      BY <1>4 DEF Stood
    <3>1. Same(f, f)
      BY DEF Same
    <3> QED
      BY <1>1, <3>1
  <2> QED
    BY <1>2, <2>1, <2>2, <2>3, DoctorLooks
<1>7. BeforeLed'
  BY <1>1, <1>2, <1>4, BeforeStays DEF Leading
<1> QED
  BY <1>1, <1>5, <1>6, <1>7 DEF Leading

LEMMA BackIsSame ==
  ASSUME RTypeInv, NEW f \in File, NEW ok \in BOOLEAN, WriteBack(Doctor, f, ok),
         NEW S, f \in S
  PROVE  ok => \A g \in files' : \E h \in files \cup S : Same(g, h)
<1> SUFFICES ASSUME ok, NEW g \in files' PROVE \E h \in files \cup S : Same(g, h)
  OBVIOUS
<1> DEFINE back == [f EXCEPT !.writer = Doctor]
<1>1. files' = Put(files, back) /\ Same(back, f)
  BY WriteBackIs DEF Same, File
<1>2. Same(g, g)
  BY DEF Same
<1> HIDE DEF back
<1> QED
  BY <1>1, <1>2 DEF Put

LEMMA UndosLead ==
  ASSUME RTypeInv, RTypeInv', Leading, Clear', NEW ok \in BOOLEAN,
         \/ UndoReplaced(Doctor, ok) \/ UndoConfig(Doctor, ok)
         \/ UndoRemoved(Doctor, ok) \/ UndoCreated(Doctor, ok)
  PROVE  Leading'
<1> DEFINE o == op[Doctor]
           q == op'[Doctor]
<1>0. Tried(Doctor, ok) /\ pc[Doctor] = "undo" /\ pc'[Doctor] = "undo"
  BY DEF UndoReplaced, UndoConfig, UndoRemoved, UndoCreated, Tried
<1>1. UndoOK(o)
  BY <1>0, UndoHas
<1>2. o = [kind |-> o.kind, replaced |-> o.replaced, saved |-> o.saved, removed |-> o.removed,
           created |-> o.created]
  BY <1>1 DEF UndoOK
<1>3. /\ PutAside = Range(o.replaced) \cup Range(o.removed)
      /\ PutAside' = Range(q.replaced) \cup Range(q.removed)
  BY <1>0 DEF PutAside, Committing
<1>4. \A f \in files : \E g \in files \cup PutAside : Same(f, g)
  BY DEF Same
<1>5. CASE UndoReplaced(Doctor, ok)
  <2>1. /\ o.replaced # <<>> /\ WriteBack(Doctor, Head(o.replaced), ok)
        /\ op' = [op EXCEPT ![Doctor].replaced = Tail(@)]
    BY <1>5 DEF UndoReplaced
  <2>2. q = [o EXCEPT !.replaced = Tail(@)] /\ op' = [op EXCEPT ![Doctor] = q]
    BY <2>1, DoctorHas
  <2> HIDE DEF o, q
  <2>3. q.replaced = Tail(o.replaced) /\ q.removed = o.removed
    BY <1>2, <2>2
  <2>4. Head(o.replaced) \in File /\ Head(o.replaced) \in PutAside /\ PutAside' \subseteq PutAside
    BY <1>1, <1>3, <2>1, <2>3, TailIs DEF UndoOK
  <2>5. ok => \A f \in files' : \E g \in files \cup PutAside : Same(f, g)
    BY <2>1, <2>4, BackIsSame
  <2> QED
    BY <1>0, <2>2, <2>4, <2>5, UndoLeads DEF q
<1>6. CASE UndoRemoved(Doctor, ok)
  <2>1. /\ o.removed # <<>> /\ WriteBack(Doctor, Head(o.removed), ok)
        /\ op' = [op EXCEPT ![Doctor].removed = Tail(@)]
    BY <1>6 DEF UndoRemoved
  <2>2. q = [o EXCEPT !.removed = Tail(@)] /\ op' = [op EXCEPT ![Doctor] = q]
    BY <2>1, DoctorHas
  <2> HIDE DEF o, q
  <2>3. q.removed = Tail(o.removed) /\ q.replaced = o.replaced
    BY <1>2, <2>2
  <2>4. Head(o.removed) \in File /\ Head(o.removed) \in PutAside /\ PutAside' \subseteq PutAside
    BY <1>1, <1>3, <2>1, <2>3, TailIs DEF UndoOK
  <2>5. ok => \A f \in files' : \E g \in files \cup PutAside : Same(f, g)
    BY <2>1, <2>4, BackIsSame
  <2> QED
    BY <1>0, <2>2, <2>4, <2>5, UndoLeads DEF q
<1>7. CASE UndoConfig(Doctor, ok)
  <2>1. files' = files /\ op' = [op EXCEPT ![Doctor].saved = <<>>]
    BY <1>7 DEF UndoConfig
  <2>2. q = [o EXCEPT !.saved = <<>>] /\ op' = [op EXCEPT ![Doctor] = q]
    BY <2>1, DoctorHas
  <2> HIDE DEF o, q
  <2>3. q.removed = o.removed /\ q.replaced = o.replaced
    BY <1>2, <2>2
  <2> QED
    BY <1>0, <1>3, <1>4, <2>1, <2>2, <2>3, UndoLeads DEF q
<1>8. CASE UndoCreated(Doctor, ok)
  <2>1. files' \subseteq files /\ op' = [op EXCEPT ![Doctor].created = Tail(@)]
    BY <1>8 DEF UndoCreated
  <2>2. q = [o EXCEPT !.created = Tail(@)] /\ op' = [op EXCEPT ![Doctor] = q]
    BY <2>1, DoctorHas
  <2> HIDE DEF o, q
  <2>3. q.removed = o.removed /\ q.replaced = o.replaced
    BY <1>2, <2>2
  <2> QED
    BY <1>0, <1>3, <1>4, <2>1, <2>2, <2>3, UndoLeads DEF q
<1> QED
  BY <1>5, <1>6, <1>7, <1>8

(* Files of one content are of one item and one number.                    *)
LEMMA SameContents ==
  ASSUME NEW F \in SUBSET File, NEW G \in SUBSET File, Contents(F) = Contents(G), NEW f \in F
  PROVE  \E g \in G : g.item = f.item /\ g.n = f.n
<1>1. [f EXCEPT !.writer = "git"] \in Contents(G)
  BY DEF Contents
<1>2. PICK g \in G : [f EXCEPT !.writer = "git"] = [g EXCEPT !.writer = "git"]
  BY <1>1 DEF Contents
<1>3. f \in File /\ g \in File
  OBVIOUS
<1>4. /\ [f EXCEPT !.writer = "git"].item = f.item /\ [f EXCEPT !.writer = "git"].n = f.n
      /\ [g EXCEPT !.writer = "git"].item = g.item /\ [g EXCEPT !.writer = "git"].n = g.n
  BY <1>3 DEF File
<1> QED
  BY <1>2, <1>4

(* It has gone back to the files and the redirects it had when it opened   *)
(* the repository, which led from every number that was written before.    *)
LEMMA RollbackLeads ==
  ASSUME RTypeInv, RTypeInv', AtomicInv, Leading, Clear', RolledBack(Doctor)
  PROVE  Leading'
<1> DEFINE o == op[Doctor]
           B == Head(before).files
           Y == Head(before).yaml
<1>0. /\ pc[Doctor] = "undo" /\ outcome # "undo failed"
      /\ pc' = [pc EXCEPT ![Doctor] = "idle"] /\ op' = [op EXCEPT ![Doctor] = NoOp]
      /\ o.saved = <<>> /\ o.removed = <<>> /\ o.created = <<>>
      /\ UNCHANGED <<files, tmps, yaml, clock, acked, before>>
  BY DEF RolledBack, Return, Goto, Leading
<1>1. before # <<>>
  <2>1. trampled' = (trampled \/ before = <<>>)
    BY Zenon DEF RolledBack
  <2> QED
    BY <2>1 DEF Clear
<1>2. outcome' = "rolled back"
  BY <1>0, <1>1 DEF RolledBack, Ends
<1>3. op' = [op EXCEPT ![Doctor] = op'[Doctor]]
  BY <1>0, DoctorHas, SlotIs
<1>4. Idle(Doctor) /\ pc'[Doctor] = "idle"
  BY <1>0, <1>3, DoctorIdle
<1>5. /\ pc[Doctor] \notin Committing /\ pc'[Doctor] \notin Committing /\ pc'[Doctor] # "undo"
      /\ pc'[Doctor] \notin Fore /\ pc'[Doctor] \notin Removing
  BY <1>0, <1>4 DEF Committing, Fore, Writing, Configuring, Removing
<1>6. Seen' = {} /\ ToWrite' = {} /\ PutAside' = {} /\ Answer = {}
  BY <1>5 DEF Seen, ToWrite, PutAside, Answer
<1>7. CommitSeen' /\ MovedLed' /\ BeforeLed'
  BY <1>4, <1>5 DEF CommitSeen, MovedLed, BeforeLed
<1>8. Sound'
  <2>1. Typed /\ Sound /\ clock' = clock
    BY <1>0, <1>7 DEF Typed, Leading
  <2>2. Stood' \subseteq Stood /\ Coming' \subseteq Coming /\ ToWrite' \subseteq ToWrite
    BY <1>0, <1>6 DEF Stood, Coming
  <2>3. \A f \in Stood' : \E g \in Stood : Same(f, g)
    BY <2>2 DEF Same
  <2> QED
    BY <1>4, <2>1, <2>2, <2>3, DoctorLooks
<1>9. AllLed'
  <2> SUFFICES ASSUME NEW a \in acked PROVE Led(Kept', yaml.redirects, a)
    BY <1>0 DEF AllLed
  <2>1. /\ \A p \in Others : pc[p] # "unlink"
        /\ Led(B, Y.redirects, a)
    BY <1>0, <1>1, <1>6 DEF Leading, BeforeLed
  <2>2. Kept' = files
    <3>1. \A p \in Others : pc'[p] # "unlink"
      BY <1>4, <2>1 DEF Idle, Others
    <3> QED
      BY <1>0, <1>5, <3>1 DEF Kept, Stays, Unlinked
  <2>3. Undoing(files, yaml, B, Y, o) /\ B \subseteq File /\ files \subseteq File
    BY <1>0, <1>1, UndoUndisturbed, DoctorHas
  <2> HIDE DEF o, B, Y
  <2>4. Contents(files) = Contents(B) /\ yaml = Y
    BY <1>0, <2>3, UndoneIs
  <2>5. PICK f \in B : f.item = a[1] /\ Leads(Y.redirects, a[2], f.n)
    BY <2>1 DEF Led
  <2>6. PICK g \in files : g.item = f.item /\ g.n = f.n
    BY <2>3, <2>4, SameContents
  <2> QED
    BY <2>2, <2>4, <2>5, <2>6 DEF Led
<1> QED
  BY <1>2, <1>7, <1>8, <1>9 DEF Leading

LEMMA LeadStays ==
  ASSUME Leading, UNCHANGED vars
  PROVE  Leading'
<1>0. /\ UNCHANGED <<files, tmps, yaml, clock, acked, outcome, before>>
      /\ UNCHANGED <<pc, op>>
  BY DEF vars, storeVars
<1>1. Seen' = Seen /\ ToWrite' = ToWrite /\ Answer' = Answer /\ PutAside' = PutAside
  BY <1>0 DEF Seen, ToWrite, Answer, PutAside
<1>2. Stood' = Stood /\ Coming' = Coming
  BY <1>0, <1>1 DEF Stood, Coming
<1>3. RevsOK' /\ CommitSeen'
  BY <1>0, <1>2 DEF Leading, Sound, RevsOK, CommitSeen
<1>4. QuotesOK' /\ OwnWrites'
  BY <1>0, <1>1, <1>2 DEF Leading, Sound, QuotesOK, QuoteOK, OwnWrites, Signed
<1>5. Unlinked' = Unlinked /\ Doomed' = Doomed
  BY <1>0, <1>1 DEF Unlinked, Doomed
<1>6. Safe' = Safe /\ Kept' = Kept
  BY <1>0, <1>5 DEF Safe, Stays, Kept
<1>7. AllLed'
  BY <1>0, <1>6 DEF Leading, AllLed
<1>8. MovedLed'
  BY <1>0, <1>1, <1>6 DEF Leading, MovedLed, Pending, Target
<1>9. BeforeLed'
  BY <1>0, <1>1 DEF Leading, BeforeLed
<1> QED
  BY <1>0, <1>3, <1>4, <1>7, <1>8, <1>9 DEF Leading, Sound

LEMMA LeadKeeps ==
  ASSUME RTypeInv, AtomicInv, LeadInv, [RNext]_vars
  PROVE  RTypeInv' /\ AtomicInv' /\ LeadInv'
<1>1. RTypeInv' /\ AtomicInv'
  BY RNextKeeps
<1>2. LeadInv'
  <2> SUFFICES ASSUME Clear' PROVE Leading'
    BY DEF LeadInv
  <2>0. Clear /\ Leading
    BY ClearBefore DEF LeadInv
  <2>1. CASE DoctorStep
    <3>1. CASE \/ Open(Doctor) \/ FindDuplicates(Doctor) \/ GiveNumber(Doctor)
               \/ GiveUp(Doctor) \/ Applied(Doctor) \/ Prepare(Doctor)
      BY <1>1, <2>0, <3>1, OpenLeads, PlanLeads, EndLeads, PrepareLeads
    <3>2. CASE \/ CommitRead(Doctor) \/ CommitStage(Doctor) \/ CommitLand(Doctor)
               \/ ConfigRead(Doctor) \/ ConfigStage(Doctor) \/ ConfigLand(Doctor)
      BY <1>1, <2>0, <3>2, ReadingLeads, StagingLeads, LandingLeads, ConfigReadLeads, ConfigLeads
    <3>3. CASE \/ RemoveRead(Doctor) \/ CommitRemove(Doctor) \/ CommitFails(Doctor)
               \/ RolledBack(Doctor)
      BY <1>1, <2>0, <3>3, RemoveReadLeads, RemoveLeads, CommitFailsLeads, RollbackLeads
    <3>4. ASSUME NEW ok \in BOOLEAN,
                 \/ UndoReplaced(Doctor, ok) \/ UndoConfig(Doctor, ok)
                 \/ UndoRemoved(Doctor, ok) \/ UndoCreated(Doctor, ok)
          PROVE  Leading'
      BY <1>1, <2>0, <3>4, UndosLead
    <3> QED
      BY <2>1, <3>1, <3>2, <3>3, <3>4 DEF DoctorStep
  <2>2. CASE DoctorDies
    BY <1>1, <2>0, <2>2, EndLeads
  <2>3. CASE (\E p \in Others : Bystander(StoreStep(p))) \/ Bystander(GitStep)
    BY <1>1, <2>0, <2>3, OthersLead
  <2>4. CASE UNCHANGED vars
    BY <2>0, <2>4, LeadStays
  <2> QED
    BY <2>1, <2>2, <2>3, <2>4 DEF RNext, Others
<1> QED
  BY <1>1, <1>2

LEMMA LeadBegins == RInit => LeadInv
<1> SUFFICES ASSUME RInit PROVE Leading
  BY DEF LeadInv
<1>1. /\ files \in Seeds /\ tmps = {} /\ clock = SeedWrites
      /\ \A p \in Processes : pc[p] = "idle"
      /\ acked = {<<f.item, f.n>> : f \in files} /\ outcome = "none"
  BY DEF RInit, Init
<1>2. pc[Doctor] = "idle" /\ \A p \in Others : pc[p] = "idle"
  BY <1>1, RenumberAssumption DEF Others
<1>3. pc[Doctor] \notin Committing \cup Fore \cup Removing \cup {"undo"}
  BY <1>2 DEF Committing, Fore, Writing, Configuring, Removing
<1>4. Seen = {} /\ ToWrite = {} /\ PutAside = {}
  BY <1>3 DEF Seen, ToWrite, PutAside
<1>5. Stood = files /\ Coming = {}
  BY <1>1, <1>4 DEF Stood, Coming
<1>6. RevsOK
  BY <1>1, <1>5, SeedsAssumption DEF RevsOK, Revs
<1>7. CommitSeen /\ MovedLed /\ BeforeLed
  BY <1>2, <1>3 DEF CommitSeen, MovedLed, BeforeLed
<1>8. Sound
  BY <1>2, <1>4, <1>6 DEF Sound, QuotesOK, QuoteOK, Changes, OwnWrites, Signed
<1>9. AllLed
  <2>1. Kept = files
    BY <1>2, <1>3 DEF Kept, Stays, Unlinked
  <2> SUFFICES ASSUME NEW f \in files PROVE Led(files, yaml.redirects, <<f.item, f.n>>)
    BY <1>1, <2>1 DEF AllLed
  <2> QED
    BY LeadsToItself DEF Led
<1> QED
  BY <1>1, <1>7, <1>8, <1>9 DEF Leading

LEMMA LeadingAlways == RSpec => [](RTypeInv /\ AtomicInv /\ LeadInv)
<1>1. RInit => RTypeInv /\ AtomicInv /\ LeadInv
  BY RInitKeeps, LeadBegins
<1>2. (RTypeInv /\ AtomicInv /\ LeadInv) /\ [RNext]_vars => (RTypeInv /\ AtomicInv /\ LeadInv)'
  BY LeadKeeps
<1> QED
  BY <1>1, <1>2, PTL DEF RSpec

(* Create, ApplyRenumber, fileTx and stageRedirects (R-RENUM-2): every     *)
(* item that has not been hard-deleted is there, and the redirects of      *)
(* project.yaml lead to it from every number it was ever written with, at  *)
(* every step of a renumbering on its way forward, of a write beside it or *)
(* of a pull, and wherever the doctor dies on that way.  Excused are the   *)
(* steps of a rollback, and all that comes after a redirect was lost or    *)
(* shared, a write was lost, a rollback failed or was cut by a death, or a *)
(* renumbering that somebody disturbed died or was rolled back.            *)
THEOREM OldIdsLead == RSpec => []OldIdsResolve
<1>1. LeadInv => OldIdsResolve
  <2> SUFFICES ASSUME LeadInv, ~trampled, clobbered = {}, pc[Doctor] # "undo", NEW a \in acked
               PROVE  \E f \in files : f.item = a[1] /\ Leads(yaml.redirects, a[2], f.n)
    BY DEF OldIdsResolve
  <2>1. Led(Kept, yaml.redirects, a)
    BY DEF LeadInv, Leading, AllLed, Clear
  <2>2. Kept \subseteq files
    BY DEF Kept, Safe, Stays
  <2> QED
    BY <2>1, <2>2 DEF Led
<1> QED
  BY LeadingAlways, <1>1, PTL
=============================================================================
