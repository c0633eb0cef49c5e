---------------------------- MODULE LifecycleProofs ----------------------------
(***************************************************************************)
(* Theorems about CredentialLifecycle, for any number of sessions at a     *)
(* time and any answers of the quota probe.                                *)
(***************************************************************************)
EXTENDS CredentialLifecycle, TLAPS

Merged(s) == [f \in Columns |-> IF f \in DOMAIN s THEN s[f] ELSE row[f]]

TypeInv == TypeOK /\ sets = [a \in Writers |-> sets[a]]

(* A row made of fields of two rows is a row. *)
LEMMA MixedRow ==
    ASSUME NEW v, v = [f \in Columns |-> v[f]], NEW u \in Rows, NEW w \in Rows,
           \A f \in Columns : v[f] \in {u[f], w[f]}
    PROVE  v \in Rows
  BY DEF Rows, Columns

LEMMA ChangedFields ==
    ASSUME NEW old \in Rows, NEW new \in Rows, NEW flagged \in SUBSET Columns
    PROVE  LET s == Changed(old, new, flagged) IN
           /\ DOMAIN s \subseteq Columns /\ flagged \subseteq DOMAIN s
           /\ \A f \in DOMAIN s : s[f] = new[f]
           /\ \A f \in Columns \ DOMAIN s : new[f] = old[f]
           /\ \A f \in DOMAIN s \ flagged : new[f] # old[f]
  BY DEF Changed

LEMMA RestType ==
    ASSUME NEW a \in Writers, NEW new \in Rows
    PROVE  Rest(a, new) \in Rows /\ Nothing \in Rows
  BY DEF Rest, Nothing, NoQuotas, Rows, Statuses

(* What a writer is going to write stays a row when another one writes. *)
LEMMA MergedStays ==
    ASSUME TypeInv, row' \in Rows, NEW b \in Writers, sets'[b] = sets[b]
    PROVE  DOMAIN sets'[b] \subseteq Columns /\ Merged(sets[b])' \in Rows
  <1>1. DOMAIN sets[b] \subseteq Columns /\ Merged(sets[b]) \in Rows
    BY DEF TypeInv, TypeOK, Merged
  <1>2. \A f \in Columns : Merged(sets[b])'[f] \in {Merged(sets[b])[f], row'[f]}
    BY <1>1 DEF Merged
  <1>3. Merged(sets[b])' = [f \in Columns |-> Merged(sets[b])'[f]]
    BY DEF Merged
  <1>4. QED  BY <1>1, <1>2, <1>3, MixedRow

------------------------------------------------------------------------------
(* What each open session knows, as long as nobody wrote a column it minds. *)

Unmissed(a, f) == f \notin missed[a]
Writes(a, f)   == pc[a] = "commit" /\ f \in DOMAIN sets[a]

HandlerFacts ==
    /\ Writes("handler", "status") /\ Unmissed("handler", "status") /\ row.status \in Terminal =>
          sets["handler"].status \in Terminal
    /\ AG /\ Writes("handler", "status") /\ sets["handler"].status = "exhausted" =>
          Writes("handler", "quotas") /\ Spent(sets["handler"].quotas)
    /\ Writes("handler", "quotas") /\ Unmissed("handler", "quotas") =>
          \A g \in Groups : row.quotas[g] = "zero" => sets["handler"].quotas[g] = "zero"

(* The scan: its copy is the row, and it never decides on a terminal one. *)
ScanFacts ==
    /\ ~Writes("scan", "quotas")
    /\ pc["scan"] = "judge" => copy["scan"].status = "cooldown"
    /\ pc["scan"] = "judge" /\ Unmissed("scan", "status") => row.status = "cooldown"
    /\ pc["scan"] = "judge" /\ Unmissed("scan", "quotas") => row.quotas = copy["scan"].quotas
    /\ Writes("scan", "status") => sets["scan"].status \in {"active", "exhausted"}
    /\ Writes("scan", "status") /\ Unmissed("scan", "status") => row.status \notin Terminal
    /\ AG /\ Writes("scan", "status") /\ sets["scan"].status = "exhausted"
          /\ Unmissed("scan", "quotas") => Spent(row.quotas)
    /\ pc["scan"] = "commit" /\ ~Writes("scan", "status") /\ Booking /\ Unmissed("scan", "status") =>
          row.status \notin Terminal
    /\ pc["scan"] = "pick" => ~AG
    /\ pc["scan"] = "pick" /\ Unmissed("scan", "status") => row.status \notin Terminal

ResetFacts ==
    /\ ~Writes("reset", "quotas")
    /\ pc["reset"] = "judge" => copy["reset"].status = "cooldown"
    /\ pc["reset"] = "judge" /\ Unmissed("reset", "status") => row.status = "cooldown"
    /\ Writes("reset", "status") => sets["reset"].status = "active"
    /\ AG /\ Writes("reset", "status") /\ Unmissed("reset", "status") => row.status \notin Terminal

HealthFacts == pc["health"] = "commit" => ~AG /\ ~Writes("health", "quotas")

RefreshFacts ==
    /\ ~Writes("refresh", "quotas")
    /\ Writes("refresh", "status") => sets["refresh"].status \in {"reauth_required", "cooldown"}
    /\ Writes("refresh", "status") /\ Unmissed("refresh", "status") => row.status \notin Terminal

ProbeFacts ==
    pc["probe"] \in {"lock", "write"} =>
        /\ {"status", "quotas"} \subseteq DOMAIN sets["probe"]
        /\ copy["probe"].status \in Terminal => sets["probe"].status \in Terminal
        /\ sets["probe"].status = "exhausted" => Spent(sets["probe"].quotas)

AdminFacts == Writes("admin", "status") => sets["admin"].status \in {"active", "disabled"}

Facts == /\ HandlerFacts /\ ScanFacts /\ ResetFacts /\ HealthFacts
         /\ RefreshFacts /\ ProbeFacts /\ AdminFacts

------------------------------------------------------------------------------
(* Types *)

LockOk ==
    \/ lock = None
    \/ lock = "handler" /\ pc["handler"] \in {"judge", "commit"}
    \/ lock = "probe" /\ pc["probe"] = "write"

LEMMA TypesAfter ==
    ASSUME TypeInv, NEW a \in Writers,
           type' = type, row' \in Rows, cool' \in BOOLEAN, LockOk', kind' \in Kinds,
           pc' \in [Writers -> PC], copy' \in [Writers -> Rows],
           missed' \in [Writers -> SUBSET {"status", "quotas"}],
           sets' = [b \in Writers |-> sets'[b]], \A b \in Writers \ {a} : sets'[b] = sets[b],
           DOMAIN sets'[a] \subseteq Columns, Merged(sets[a])' \in Rows
    PROVE  TypeInv'
  <1>1. \A b \in Writers : DOMAIN sets'[b] \subseteq Columns /\ Merged(sets[b])' \in Rows
    BY MergedStays
  <1>2. type' \in {"antigravity", "byo"}
    BY DEF TypeInv, TypeOK
  <1>3. QED  BY <1>1, <1>2 DEF TypeInv, TypeOK, LockOk, Merged

LEMMA NothingToWrite ==
    ASSUME row' \in Rows, NEW a \in Writers, sets'[a] = <<>>
    PROVE  DOMAIN sets'[a] \subseteq Columns /\ Merged(sets[a])' \in Rows
  <1>1. DOMAIN sets'[a] = {}
    OBVIOUS
  <1>2. Merged(sets[a])' = [f \in Columns |-> row'[f]]
    BY <1>1 DEF Merged
  <1>3. QED  BY <1>1, <1>2, MixedRow

LEMMA ChangesToWrite ==
    ASSUME row' \in Rows, NEW a \in Writers, NEW old \in Rows, NEW new \in Rows,
           NEW flagged \in SUBSET Columns, sets'[a] = Changed(old, new, flagged)
    PROVE  DOMAIN sets'[a] \subseteq Columns /\ Merged(sets[a])' \in Rows
  <1>1. DOMAIN sets'[a] \subseteq Columns /\ \A f \in DOMAIN sets'[a] : sets'[a][f] = new[f]
    BY ChangedFields
  <1>2. \A f \in Columns : Merged(sets[a])'[f] \in {new[f], row'[f]}
    BY <1>1 DEF Merged
  <1>3. Merged(sets[a])' = [f \in Columns |-> Merged(sets[a])'[f]]
    BY DEF Merged
  <1>4. QED  BY <1>1, <1>2, <1>3, MixedRow

LEMMA LockStays ==
    ASSUME TypeInv, NEW a \in Writers, NEW l, Goto(a, l), lock' = lock,
           lock # a \/ (a = "handler" /\ l = "commit")
    PROVE  LockOk'
  BY DEF TypeInv, TypeOK, LockOk, Goto, Writers

LEMMA LockFreed ==
    ASSUME TypeInv, NEW a \in Writers, NEW l, Goto(a, l), Freed(a)
    PROVE  LockOk'
  <1>1. lock' = None \/ (lock' = lock /\ lock # a /\ lock \in {"handler", "probe"})
    BY DEF TypeInv, TypeOK, Freed
  <1>2. pc \in [Writers -> PC] /\ LockOk
    BY DEF TypeInv, TypeOK, LockOk
  <1>3. QED  BY <1>1, <1>2 DEF LockOk, Goto, Writers

LEMMA DecideTypes ==
    ASSUME TypeInv, NEW a \in Writers \ {"probe"}, NEW new \in Rows, NEW flagged \in SUBSET Columns,
           Decide(a, new, flagged), cool' \in BOOLEAN, lock' = lock, kind' \in Kinds
    PROVE  TypeInv'
  <1>1. /\ row' = row /\ row \in Rows /\ type' = type
        /\ sets' = [sets EXCEPT ![a] = Changed(row, new, flagged)]
        /\ Goto(a, "commit")
    BY DEF Decide, Open, TypeInv, TypeOK
  <1>2. /\ pc' \in [Writers -> PC] /\ copy' \in [Writers -> Rows]
        /\ missed' \in [Writers -> SUBSET {"status", "quotas"}]
    BY <1>1, RestType DEF Decide, Open, Goto, TypeInv, TypeOK, PC
  <1>3. /\ sets' = [b \in Writers |-> sets'[b]] /\ \A b \in Writers \ {a} : sets'[b] = sets[b]
        /\ sets'[a] = Changed(row, new, flagged)
    BY <1>1 DEF TypeInv
  <1>4. LockOk'
    <2>1. lock # a \/ a = "handler"
      BY SessionsAssumption DEF TypeInv, TypeOK
    <2>2. QED  BY <1>1, <2>1, LockStays
  <1>5. QED  BY <1>1, <1>2, <1>3, <1>4, ChangesToWrite, TypesAfter

LEMMA ReadTypes ==
    ASSUME TypeInv, NEW a \in Writers, NEW part \in Rows, Read(a, part),
           cool' = cool, lock' = lock, kind' = kind, lock # a
    PROVE  TypeInv'
  <1>1. /\ row' = row /\ row \in Rows /\ type' = type /\ sets' = sets /\ Goto(a, "judge")
    BY DEF Read, Open, TypeInv, TypeOK
  <1>2. /\ pc' \in [Writers -> PC] /\ copy' \in [Writers -> Rows]
        /\ missed' \in [Writers -> SUBSET {"status", "quotas"}]
    BY <1>1 DEF Read, Open, Goto, TypeInv, TypeOK, PC
  <1>3. cool' \in BOOLEAN /\ kind' \in Kinds /\ LockOk'
    BY <1>1, LockStays DEF TypeInv, TypeOK
  <1>4. QED  BY <1>1, <1>2, <1>3, MergedStays, TypesAfter DEF TypeInv

LEMMA LeaveTypes ==
    ASSUME TypeInv, NEW a \in Writers, Leave(a), cool' \in BOOLEAN,
           Freed(a) \/ (lock' = lock /\ lock # a)
    PROVE  TypeInv'
  <1>1. /\ row' = row /\ row \in Rows /\ type' = type /\ sets' = [sets EXCEPT ![a] = <<>>]
        /\ Goto(a, "idle")
    BY DEF Leave, Close, TypeInv, TypeOK
  <1>2. /\ pc' \in [Writers -> PC] /\ copy' \in [Writers -> Rows]
        /\ missed' \in [Writers -> SUBSET {"status", "quotas"}]
    BY <1>1, RestType DEF Leave, Close, Goto, TypeInv, TypeOK, PC
  <1>3. kind' \in Kinds
    BY DEF Leave, Close, TypeInv, TypeOK, Kinds
  <1>4. /\ sets' = [b \in Writers |-> sets'[b]] /\ \A b \in Writers \ {a} : sets'[b] = sets[b]
        /\ sets'[a] = <<>>
    BY <1>1 DEF TypeInv
  <1>5. LockOk'
    BY <1>1, LockStays, LockFreed
  <1>6. QED  BY <1>1, <1>2, <1>3, <1>4, <1>5, NothingToWrite, TypesAfter

LEMMA JudgeTypes ==
    ASSUME TypeInv, NEW a \in Writers \ {"handler", "probe"}, NEW new \in Rows, Judge(a, new),
           cool' = cool, lock' = lock
    PROVE  TypeInv'
  <1>0. lock # a /\ cool' \in BOOLEAN
    BY SessionsAssumption DEF TypeInv, TypeOK, Writers
  <1>1. CASE new = copy[a]
    BY <1>0, <1>1, LeaveTypes DEF Judge
  <1>2. CASE new # copy[a]
    <2>1. /\ row' = row /\ row \in Rows /\ type' = type /\ kind' = kind /\ missed' = missed
          /\ sets' = [sets EXCEPT ![a] = Changed(copy[a], new, {})]
          /\ copy' = [copy EXCEPT ![a] = Rest(a, new)] /\ Goto(a, "commit") /\ copy[a] \in Rows
      BY <1>2 DEF Judge, rowVars, TypeInv, TypeOK
    <2>2. /\ pc' \in [Writers -> PC] /\ copy' \in [Writers -> Rows] /\ kind' \in Kinds
          /\ missed' \in [Writers -> SUBSET {"status", "quotas"}]
      BY <2>1, RestType DEF Goto, TypeInv, TypeOK, PC
    <2>3. /\ sets' = [b \in Writers |-> sets'[b]] /\ \A b \in Writers \ {a} : sets'[b] = sets[b]
          /\ sets'[a] = Changed(copy[a], new, {})
      BY <2>1 DEF TypeInv
    <2>4. DOMAIN sets'[a] \subseteq Columns /\ Merged(sets[a])' \in Rows
      BY <2>1, <2>3, ChangesToWrite
    <2>5. LockOk'
      BY <1>0, <2>1, LockStays
    <2>6. QED  BY <1>0, <2>1, <2>2, <2>3, <2>4, <2>5, TypesAfter
  <1>3. QED  BY <1>1, <1>2

LEMMA WriteTypes ==
    ASSUME TypeInv, NEW a \in Writers, NEW values \in Rows, NEW l, Write(a, values, l)
    PROVE  row' \in Rows /\ missed' \in [Writers -> SUBSET {"status", "quotas"}]
  <1>1. \A b \in Writers : Watched(b) \subseteq {"status", "quotas"}
    BY DEF Watched
  <1>2. QED  BY <1>1 DEF Write, TypeInv, TypeOK

LEMMA CommitTypes ==
    ASSUME TypeInv, NEW a \in Writers, NEW l \in {"idle", "pick", "key"}, Commit(a, l)
    PROVE  TypeInv'
  <1>1. Merged(sets[a]) \in Rows /\ Write(a, Merged(sets[a]), l)
    BY DEF Commit, Merged, TypeInv, TypeOK
  <1>2. row' \in Rows /\ missed' \in [Writers -> SUBSET {"status", "quotas"}]
    BY <1>1, WriteTypes
  <1>3. /\ type' = type /\ cool' \in BOOLEAN /\ kind' \in Kinds /\ Freed(a) /\ Goto(a, l)
        /\ sets' = [sets EXCEPT ![a] = <<>>] /\ copy' = [copy EXCEPT ![a] = Nothing]
    BY DEF Commit, TypeInv, TypeOK
  <1>4. pc' \in [Writers -> PC] /\ copy' \in [Writers -> Rows] /\ LockOk'
    BY <1>3, RestType, LockFreed DEF Goto, TypeInv, TypeOK, PC
  <1>5. /\ sets' = [b \in Writers |-> sets'[b]] /\ \A b \in Writers \ {a} : sets'[b] = sets[b]
        /\ sets'[a] = <<>>
    BY <1>3 DEF TypeInv
  <1>6. QED  BY <1>2, <1>3, <1>4, <1>5, NothingToWrite, TypesAfter

LEMMA SetsKept ==
    ASSUME TypeInv, type' = type, row' \in Rows, cool' \in BOOLEAN, LockOk', kind' \in Kinds,
           pc' \in [Writers -> PC], copy' \in [Writers -> Rows],
           missed' \in [Writers -> SUBSET {"status", "quotas"}], sets' = sets
    PROVE  TypeInv'
  <1>1. /\ "admin" \in Writers /\ sets' = [b \in Writers |-> sets'[b]]
        /\ DOMAIN sets'["admin"] \subseteq Columns /\ Merged(sets["admin"])' \in Rows
    BY MergedStays DEF TypeInv, Writers
  <1>2. QED  BY <1>1, TypesAfter

LEMMA WriteCloses ==
    ASSUME TypeInv, NEW a \in Writers, NEW values \in Rows, Write(a, values, "idle"), Close(a),
           type' = type, cool' = cool, Freed(a) \/ (lock' = lock /\ lock # a)
    PROVE  TypeInv'
  <1>1. Goto(a, "idle") /\ sets' = [sets EXCEPT ![a] = <<>>]
    BY DEF Close
  <1>2. row' \in Rows /\ missed' \in [Writers -> SUBSET {"status", "quotas"}]
    BY WriteTypes
  <1>3. pc' \in [Writers -> PC] /\ copy' \in [Writers -> Rows] /\ cool' \in BOOLEAN
    BY <1>1, RestType DEF Close, Goto, TypeInv, TypeOK, PC
  <1>4. kind' \in Kinds
    BY DEF Close, TypeInv, TypeOK, Kinds
  <1>5. LockOk'
    BY <1>1, LockStays, LockFreed
  <1>6. /\ sets' = [b \in Writers |-> sets'[b]] /\ \A b \in Writers \ {a} : sets'[b] = sets[b]
        /\ sets'[a] = <<>>
    BY <1>1 DEF TypeInv
  <1>7. QED  BY <1>2, <1>3, <1>4, <1>5, <1>6, NothingToWrite, TypesAfter

(* What the helpers make of a row is a row. *)
LEMMA VerdictTypes ==
    ASSUME NEW v \in Rows
    PROVE  /\ \A g \in Groups : kind \in Kinds => Blamed(v, g) \in Rows
           /\ Repaired(v) \in Rows /\ Reset(v) \in Rows
           /\ Revived(v) \in Rows /\ Repaired(Revived(v)) \in Rows
  <1>1. \A g \in Groups : kind \in Kinds => Blamed(v, g) \in Rows
    BY DEF Blamed, Marked, Rows, Statuses
  <1>2. NewWindow(v) \in Rows
    BY DEF NewWindow, Rows, Statuses
  <1>3. \A u \in Rows : Repaired(u) \in Rows
    BY DEF Repaired, NewWindow, Rows, Statuses
  <1>4. Revived(v) \in Rows
    BY DEF Revived, Rows, Statuses
  <1>5. Reset(v) \in Rows
    BY <1>2 DEF Reset, Rolled, Rows, Statuses
  <1>6. QED  BY <1>1, <1>3, <1>4, <1>5

LEMMA LockTaken ==
    ASSUME TypeInv, NEW a, NEW l, LockState(a, l),
           (a = "handler" /\ l = "judge") \/ (a = "probe" /\ l = "write")
    PROVE  TypeInv'
  <1>1. a \in Writers /\ pc' \in [Writers -> PC] /\ UNCHANGED <<type, row, cool, copy, missed, sets, kind>>
    BY DEF LockState, Goto, rowVars, PC, Writers, TypeInv, TypeOK
  <1>2. LockOk'
    BY <1>1 DEF LockOk, LockState, Goto, TypeInv, TypeOK
  <1>3. QED  BY <1>1, <1>2, SetsKept DEF TypeInv, TypeOK

LEMMA GivenUp ==
    ASSUME TypeInv, NEW a \in Writers, GiveUp(a)
    PROVE  TypeInv'
  <1>1. lock # a /\ cool' \in BOOLEAN
    BY SessionsAssumption DEF GiveUp, TypeInv, TypeOK
  <1>2. QED  BY <1>1, LeaveTypes DEF GiveUp

LEMMA HandlerTypes ==
    ASSUME TypeInv, HandlerStep
    PROVE  TypeInv'
  <1>0. "handler" \in Writers /\ row \in Rows /\ kind \in Kinds /\ cool \in BOOLEAN
    BY DEF Writers, TypeInv, TypeOK
  <1>1. ASSUME NEW k \in Kinds, Fail(k)  PROVE TypeInv'
    <2>1. LockOk'
      <3>1. lock # "handler" /\ lock' = lock /\ Goto("handler", "lock")
        BY <1>1, SessionsAssumption DEF Fail, MayOpen, TypeInv, TypeOK, Writers
      <3>2. QED  BY <1>0, <3>1, LockStays
    <2>2. kind' \in Kinds
      BY <1>1 DEF Fail, Effect, Kinds, Mutating
    <2>3. pc' \in [Writers -> PC] /\ UNCHANGED <<type, row, cool, copy, missed, sets>>
      BY <1>1 DEF Fail, Goto, rowVars, PC, TypeInv, TypeOK
    <2>4. QED  BY <2>1, <2>2, <2>3, SetsKept DEF TypeInv, TypeOK
  <1>2. CASE Handle
    <2>1. PICK g \in Groups :
            /\ IF Keeps(row) THEN Leave("handler") /\ Freed("handler")
               ELSE /\ Decide("handler", Blamed(row, g),
                              IF AG /\ kind = "QUOTA" THEN {"quotas"} ELSE {})
                    /\ kind' = "UNKNOWN" /\ UNCHANGED lock
            /\ cool' = (cool \/ (~Keeps(row) /\ kind = "TRANSIENT"))
      BY <1>2 DEF Handle
    <2>2. cool' \in BOOLEAN /\ Blamed(row, g) \in Rows /\ "UNKNOWN" \in Kinds
      BY <1>0, <2>1, VerdictTypes DEF Kinds
    <2>3. (IF AG /\ kind = "QUOTA" THEN {"quotas"} ELSE {}) \in SUBSET Columns
      BY DEF Columns
    <2>4. CASE Keeps(row)
      BY <1>0, <2>1, <2>2, <2>4, LeaveTypes
    <2>5. CASE ~Keeps(row)
      BY <1>0, <2>1, <2>2, <2>3, <2>5, DecideTypes
    <2>6. QED  BY <2>4, <2>5
  <1>3. CASE HandlerCommit
    BY <1>0, <1>3, CommitTypes DEF HandlerCommit
  <1>4. CASE LockState("handler", "judge")
    BY <1>0, <1>4, LockTaken
  <1>5. CASE GiveUp("handler")
    BY <1>0, <1>5, GivenUp
  <1>6. QED  BY <1>1, <1>2, <1>3, <1>4, <1>5 DEF HandlerStep

LEMMA ScanTypes ==
    ASSUME TypeInv, ScanStep
    PROVE  TypeInv'
  <1>0. /\ "scan" \in Writers /\ "scan" \in Writers \ {"handler", "probe"}
        /\ row \in Rows /\ kind \in Kinds /\ cool \in BOOLEAN /\ copy["scan"] \in Rows
    BY DEF Writers, TypeInv, TypeOK
  <1>n. lock # "scan"
    BY <1>0, SessionsAssumption DEF TypeInv, TypeOK
  <1>1. CASE ScanLoad
    BY <1>0, <1>n, <1>1, VerdictTypes, ReadTypes, DecideTypes DEF ScanLoad
  <1>2. CASE ScanJudge
    BY <1>0, <1>2, VerdictTypes, JudgeTypes DEF ScanJudge
  <1>3. CASE ScanCommit
    BY <1>0, <1>3, CommitTypes DEF ScanCommit
  <1>4. CASE ExhaustBound
    <2>1. /\ pc' \in [Writers -> PC] /\ copy' \in [Writers -> Rows]
          /\ UNCHANGED <<type, row, cool, missed, kind>>
      BY <1>0, <1>4 DEF ExhaustBound, Goto, rowVars, PC, TypeInv, TypeOK, Rows, Statuses
    <2>2. LockOk'
      BY <1>0, <1>n, <1>4, LockStays DEF ExhaustBound
    <2>3. /\ sets' = [b \in Writers |-> sets'[b]] /\ sets'["scan"] = [status |-> "exhausted"]
          /\ \A b \in Writers \ {"scan"} : sets'[b] = sets[b]
      BY <1>0, <1>4 DEF ExhaustBound, TypeInv
    <2>4. DOMAIN sets'["scan"] \subseteq Columns /\ Merged(sets["scan"])' \in Rows
      <3>1. Merged(sets["scan"])' = [row EXCEPT !.status = "exhausted"]
        BY <1>0, <2>1, <2>3 DEF Merged, Columns, Rows
      <3>2. QED  BY <1>0, <2>3, <3>1 DEF Columns, Rows, Statuses
    <2>5. QED  BY <1>0, <2>1, <2>2, <2>3, <2>4, TypesAfter DEF TypeInv, TypeOK
  <1>5. QED  BY <1>1, <1>2, <1>3, <1>4 DEF ScanStep

LEMMA WorkerTypes ==
    ASSUME TypeInv, WorkerStep
    PROVE  TypeInv'
  <1>0. /\ {"reset", "health", "refresh"} \subseteq Writers \ {"handler", "probe"}
        /\ row \in Rows /\ kind \in Kinds /\ cool \in BOOLEAN /\ copy["reset"] \in Rows
    BY DEF Writers, TypeInv, TypeOK
  <1>n. lock # "reset"
    BY <1>0, SessionsAssumption DEF TypeInv, TypeOK
  <1>1. CASE ResetLoad
    <2>1. [row EXCEPT !.quotas = NoQuotas] \in Rows
      BY <1>0 DEF Rows, NoQuotas
    <2>2. QED  BY <1>0, <1>n, <1>1, <2>1, VerdictTypes, ReadTypes, DecideTypes DEF ResetLoad
  <1>2. CASE ResetJudge
    BY <1>0, <1>2, VerdictTypes, JudgeTypes DEF ResetJudge
  <1>3. CASE ResetCommit
    BY <1>0, <1>3, CommitTypes DEF ResetCommit
  <1>4. CASE HealthLoad
    <2>1. PICK healthy \in BOOLEAN :
            Decide("health", [row EXCEPT !.status =
                                 IF ~healthy THEN "degraded"
                                 ELSE IF @ = "degraded" THEN "active" ELSE @], {})
      BY <1>4 DEF HealthLoad
    <2>2. [row EXCEPT !.status = IF ~healthy THEN "degraded"
                                 ELSE IF @ = "degraded" THEN "active" ELSE @] \in Rows
      BY <1>0 DEF Rows, Statuses
    <2>3. QED  BY <1>0, <1>4, <2>1, <2>2, DecideTypes DEF HealthLoad
  <1>5. CASE HealthCommit
    BY <1>0, <1>5, CommitTypes DEF HealthCommit
  <1>6. CASE RefreshLoad
    <2>1. PICK verdict \in {"reauth_required", "cooldown"} :
            Decide("refresh", [row EXCEPT !.status = verdict], {})
      BY <1>6 DEF RefreshLoad
    <2>2. [row EXCEPT !.status = verdict] \in Rows
      BY <1>0 DEF Rows, Statuses
    <2>3. QED  BY <1>0, <1>6, <2>1, <2>2, DecideTypes DEF RefreshLoad
  <1>7. CASE RefreshCommit
    BY <1>0, <1>7, CommitTypes DEF RefreshCommit
  <1>8. CASE RefreshKey
    <2>1. lock # "refresh" /\ "refresh" \in Writers
      BY <1>0, SessionsAssumption DEF TypeInv, TypeOK
    <2>2. QED  BY <1>8, <2>1, LeaveTypes DEF RefreshKey
  <1>9. QED  BY <1>1, <1>2, <1>3, <1>4, <1>5, <1>6, <1>7, <1>8 DEF WorkerStep

LEMMA ProbedTypes ==
    ASSUME NEW v \in Rows, NEW ok \in BOOLEAN, NEW found \in Answers
    PROVE  Probed(v, ok, found) \in Rows
  BY AnswersAssumption DEF Probed, Known, ByGroups, NoQuotas, Rows, Statuses

LEMMA ProbeWritesRow ==
    ASSUME TypeInv, ProbeFacts, pc["probe"] = "write"
    PROVE  ProbeValues \in Rows
  <1>1. /\ row \in Rows /\ {"status", "quotas"} \subseteq DOMAIN sets["probe"]
        /\ Merged(sets["probe"]) \in Rows
    BY DEF TypeInv, TypeOK, ProbeFacts, Merged, Writers
  <1>2. sets["probe"].status = Merged(sets["probe"]).status /\ sets["probe"].quotas = Merged(sets["probe"]).quotas
    BY <1>1 DEF Merged, Columns
  <1>3. QED  BY <1>1, <1>2 DEF ProbeValues, Rows

LEMMA ProbeTypes ==
    ASSUME TypeInv, ProbeFacts, ProbeStep
    PROVE  TypeInv'
  <1>0. "probe" \in Writers /\ row \in Rows /\ kind \in Kinds /\ cool \in BOOLEAN /\ copy["probe"] \in Rows
    BY DEF Writers, TypeInv, TypeOK
  <1>n. pc["probe"] \in {"idle", "judge"} => lock # "probe"
    BY <1>0, SessionsAssumption DEF TypeInv, TypeOK
  <1>1. CASE ProbeStart
    BY <1>0, <1>n, <1>1, ReadTypes DEF ProbeStart, MayOpen
  <1>2. ASSUME NEW status \in Statuses, ProbeFailed(status)  PROVE TypeInv'
    <2>1. [row EXCEPT !.status = status] \in Rows
      BY <1>0 DEF Rows
    <2>2. QED  BY <1>0, <1>n, <1>2, <2>1, WriteCloses DEF ProbeFailed
  <1>3. CASE ProbeDenied
    BY <1>2, <1>3 DEF ProbeDenied, Statuses
  <1>4. CASE ProbeBroken
    BY <1>0, <1>2, <1>4 DEF ProbeBroken, Statuses, Rows
  <1>5. CASE ProbeJudge
    <2>1. PICK ok \in BOOLEAN, found \in Answers :
            sets' = [sets EXCEPT !["probe"] =
                Changed(copy["probe"], Probed(copy["probe"], ok, found), {"status", "quotas"})]
      BY <1>5 DEF ProbeJudge
    <2>2. /\ Goto("probe", "lock") /\ UNCHANGED <<type, row, missed, cool, lock, kind>>
          /\ copy' = [copy EXCEPT !["probe"] = [Nothing EXCEPT !.status = copy["probe"].status]]
          /\ pc["probe"] = "judge"
      BY <1>5 DEF ProbeJudge, rowVars
    <2>3. [Nothing EXCEPT !.status = copy["probe"].status] \in Rows
      BY <1>0, RestType DEF Rows
    <2>4. /\ pc' \in [Writers -> PC] /\ copy' \in [Writers -> Rows]
          /\ missed' \in [Writers -> SUBSET {"status", "quotas"}]
      BY <1>0, <2>2, <2>3 DEF Goto, PC, TypeInv, TypeOK
    <2>5. LockOk'
      BY <1>0, <1>n, <2>2, LockStays
    <2>6. /\ sets' = [b \in Writers |-> sets'[b]] /\ \A b \in Writers \ {"probe"} : sets'[b] = sets[b]
          /\ sets'["probe"] =
                Changed(copy["probe"], Probed(copy["probe"], ok, found), {"status", "quotas"})
      BY <1>0, <2>1 DEF TypeInv
    <2>7. {"status", "quotas"} \in SUBSET Columns
      BY DEF Columns
    <2>8. DOMAIN sets'["probe"] \subseteq Columns /\ Merged(sets["probe"])' \in Rows
      BY <1>0, <2>2, <2>6, <2>7, ProbedTypes, ChangesToWrite
    <2>9. QED  BY <1>0, <2>2, <2>4, <2>5, <2>6, <2>8, TypesAfter
  <1>6. CASE ProbeWrite
    <2>1. ProbeValues \in Rows
      BY <1>6, ProbeWritesRow DEF ProbeWrite
    <2>2. QED  BY <1>0, <1>6, <2>1, WriteCloses DEF ProbeWrite
  <1>7. CASE LockState("probe", "write")
    BY <1>7, LockTaken
  <1>8. CASE GiveUp("probe")
    BY <1>0, <1>8, GivenUp
  <1>9. QED  BY <1>1, <1>3, <1>4, <1>5, <1>6, <1>7, <1>8 DEF ProbeStep

LEMMA AdminTypes ==
    ASSUME TypeInv, AdminLoad \/ Reconnect \/ AdminCommit
    PROVE  TypeInv'
  <1>0. "admin" \in Writers /\ row \in Rows /\ kind \in Kinds /\ cool \in BOOLEAN
    BY DEF Writers, TypeInv, TypeOK
  <1>1. CASE AdminLoad
    <2>1. PICK new \in Rows, flagged \in SUBSET Columns : Decide("admin", new, flagged)
      <3>1. /\ [row EXCEPT !.status = "disabled"] \in Rows
            /\ [row EXCEPT !.status = "active", !.reset = "none", !.quotas = NoQuotas] \in Rows
            /\ \A w \in BOOLEAN :
                  [row EXCEPT !.window = w, !.reset = IF w THEN "future" ELSE "none"] \in Rows
            /\ {} \in SUBSET Columns /\ {"quotas"} \in SUBSET Columns
        BY <1>0 DEF Rows, Statuses, NoQuotas, Columns
      <3>2. QED  BY <1>0, <1>1, <3>1 DEF AdminLoad
    <2>2. QED  BY <1>0, <1>1, <2>1, DecideTypes DEF AdminLoad
  <1>2. CASE Reconnect
    <2>1. [row EXCEPT !.status = "active"] \in Rows /\ {} \in SUBSET Columns
      BY <1>0 DEF Rows, Statuses
    <2>2. QED  BY <1>0, <1>2, <2>1, DecideTypes DEF Reconnect
  <1>3. CASE AdminCommit
    BY <1>0, <1>3, CommitTypes DEF AdminCommit
  <1>4. QED  BY <1>1, <1>2, <1>3

LEMMA TimeTypes ==
    ASSUME TypeInv, WindowEnds \/ CooldownExpires \/ LockExpires \/ UNCHANGED vars
    PROVE  TypeInv'
  <1>1. CASE WindowEnds
    <2>1. row' \in Rows
      BY <1>1 DEF WindowEnds, TypeInv, TypeOK, Rows
    <2>2. QED  BY <1>1, <2>1, SetsKept DEF WindowEnds, TypeInv, TypeOK, LockOk
  <1>2. CASE CooldownExpires
    BY <1>2, SetsKept DEF CooldownExpires, rowVars, TypeInv, TypeOK, LockOk
  <1>3. CASE LockExpires
    BY <1>3, SetsKept DEF LockExpires, rowVars, TypeInv, TypeOK, LockOk
  <1>4. CASE UNCHANGED vars
    BY <1>4 DEF vars, TypeInv, TypeOK
  <1>5. QED  BY <1>1, <1>2, <1>3, <1>4

LEMMA InitTypes ==
    ASSUME Init
    PROVE  TypeInv
  <1>1. row \in Rows /\ Nothing \in Rows
    <2>1. Nothing \in Rows
      BY DEF Nothing, NoQuotas, Rows, Statuses
    <2>2. PICK w \in BOOLEAN :
            row = [Nothing EXCEPT !.window = w, !.reset = IF w THEN "future" ELSE "none"]
      BY DEF Init
    <2>3. QED  BY <2>1, <2>2 DEF Rows
  <1>2. sets = [a \in Writers |-> <<>>] /\ \A a \in Writers : DOMAIN sets[a] = {}
    BY DEF Init
  <1>3. [f \in Columns |-> row[f]] \in Rows
    BY <1>1, MixedRow
  <1>4. QED  BY <1>1, <1>2, <1>3 DEF Init, TypeInv, TypeOK, PC, Kinds

------------------------------------------------------------------------------
(* A step of one writer leaves the others what they know *)

Untouched(b) ==
    /\ pc'[b] = pc[b] /\ copy'[b] = copy[b] /\ sets'[b] = sets[b] /\ type' = type
    /\ missed[b] \subseteq missed'[b]
    /\ pc[b] \in {"judge", "commit", "pick"} =>
          \A f \in Watched(b) \ missed'[b] : row'[f] = row[f]

Alone(a) == \A b \in Writers \ {a} : Untouched(b)

LEMMA FactsStay ==
    ASSUME Facts
    PROVE  /\ Untouched("handler") => HandlerFacts'
           /\ Untouched("scan")    => ScanFacts'
           /\ Untouched("reset")   => ResetFacts'
           /\ Untouched("health")  => HealthFacts'
           /\ Untouched("refresh") => RefreshFacts'
           /\ Untouched("probe")   => ProbeFacts'
           /\ Untouched("admin")   => AdminFacts'
  <1>1. Untouched("handler") => HandlerFacts'
    BY DEF Facts, HandlerFacts, Untouched, Unmissed, Writes, Watched, Spent, AG
  <1>2. Untouched("scan") => ScanFacts'
    BY DEF Facts, ScanFacts, Untouched, Unmissed, Writes, Watched, Spent, AG, Booking
  <1>3. Untouched("reset") => ResetFacts'
    BY DEF Facts, ResetFacts, Untouched, Unmissed, Writes, Watched, AG
  <1>4. Untouched("health") => HealthFacts'
    BY DEF Facts, HealthFacts, Untouched, Writes, AG
  <1>5. Untouched("refresh") => RefreshFacts'
    BY DEF Facts, RefreshFacts, Untouched, Unmissed, Writes, Watched
  <1>6. Untouched("probe") => ProbeFacts'
    BY DEF Facts, ProbeFacts, Untouched, Spent
  <1>7. Untouched("admin") => AdminFacts'
    BY DEF Facts, AdminFacts, Untouched, Writes
  <1>8. QED  BY <1>1, <1>2, <1>3, <1>4, <1>5, <1>6, <1>7

(* The ways a writer moves. *)
LEMMA DecidesAlone ==
    ASSUME TypeInv, NEW a \in Writers, NEW new, NEW flagged, Decide(a, new, flagged)
    PROVE  Alone(a)
  BY DEF Decide, Open, Goto, Alone, Untouched, TypeInv, TypeOK

LEMMA ReadsAlone ==
    ASSUME TypeInv, NEW a \in Writers, NEW part, Read(a, part)
    PROVE  Alone(a)
  BY DEF Read, Open, Goto, Alone, Untouched, TypeInv, TypeOK

LEMMA LeavesAlone ==
    ASSUME TypeInv, NEW a \in Writers, Leave(a)
    PROVE  Alone(a)
  BY DEF Leave, Close, Goto, Alone, Untouched, TypeInv, TypeOK

LEMMA JudgesAlone ==
    ASSUME TypeInv, NEW a \in Writers, NEW new, Judge(a, new)
    PROVE  Alone(a)
  <1>1. CASE new = copy[a]
    BY <1>1, LeavesAlone DEF Judge
  <1>2. CASE new # copy[a]
    BY <1>2 DEF Judge, Goto, rowVars, Alone, Untouched, TypeInv, TypeOK
  <1>3. QED  BY <1>1, <1>2

LEMMA WritesAlone ==
    ASSUME TypeInv, NEW a \in Writers, NEW values, NEW l, Write(a, values, l), type' = type,
           \A b \in Writers \ {a} : pc'[b] = pc[b] /\ copy'[b] = copy[b] /\ sets'[b] = sets[b]
    PROVE  Alone(a)
  <1>1. ASSUME NEW b \in Writers \ {a}  PROVE Untouched(b)
    BY <1>1 DEF Write, Untouched, TypeInv, TypeOK
  <1>2. QED  BY <1>1 DEF Alone

LEMMA CommitsAlone ==
    ASSUME TypeInv, NEW a \in Writers, NEW l, Commit(a, l)
    PROVE  Alone(a)
  BY WritesAlone DEF Commit, Goto, TypeInv, TypeOK

LEMMA ClosesAlone ==
    ASSUME TypeInv, NEW a \in Writers, NEW values, Write(a, values, "idle"), Close(a), type' = type
    PROVE  Alone(a)
  BY WritesAlone DEF Close, Goto, TypeInv, TypeOK

------------------------------------------------------------------------------
(* What a writer knows after its own step *)

LEMMA AtRest ==
    /\ pc'["handler"] \in {"idle", "key"}=> HandlerFacts'
    /\ pc'["scan"] \in {"idle", "key"}   => ScanFacts'
    /\ pc'["reset"] \in {"idle", "key"}  => ResetFacts'
    /\ pc'["health"] \in {"idle", "key"} => HealthFacts'
    /\ pc'["refresh"] \in {"idle", "key"}=> RefreshFacts'
    /\ pc'["probe"] \in {"idle", "key"}  => ProbeFacts'
    /\ pc'["admin"] \in {"idle", "key"}  => AdminFacts'
  BY DEF HandlerFacts, ScanFacts, ResetFacts, HealthFacts, RefreshFacts, ProbeFacts,
         AdminFacts, Writes

LEMMA DecideKnows ==
    ASSUME TypeInv, NEW a \in Writers, NEW new \in Rows, NEW flagged \in SUBSET Columns,
           Decide(a, new, flagged)
    PROVE  /\ pc'[a] = "commit" /\ row' = row /\ type' = type /\ missed'[a] = {}
           /\ copy'[a] = Rest(a, new) /\ flagged \subseteq DOMAIN sets'[a]
           /\ \A f \in DOMAIN sets'[a] : sets'[a][f] = new[f] /\ (f \in flagged \/ new[f] # row[f])
           /\ \A f \in Columns \ DOMAIN sets'[a] : new[f] = row[f]
  <1>1. sets'[a] = Changed(row, new, flagged) /\ row \in Rows
    BY DEF Decide, TypeInv, TypeOK
  <1>2. /\ flagged \subseteq DOMAIN sets'[a]
        /\ \A f \in DOMAIN sets'[a] : sets'[a][f] = new[f] /\ (f \in flagged \/ new[f] # row[f])
        /\ \A f \in Columns \ DOMAIN sets'[a] : new[f] = row[f]
    BY <1>1, ChangedFields
  <1>3. QED  BY <1>2 DEF Decide, Open, Goto, TypeInv, TypeOK

LEMMA ReadKnows ==
    ASSUME TypeInv, NEW a \in Writers, NEW part, Read(a, part)
    PROVE  pc'[a] = "judge" /\ row' = row /\ type' = type /\ missed'[a] = {} /\ copy'[a] = part
  BY DEF Read, Open, Goto, TypeInv, TypeOK

LEMMA JudgeKnows ==
    ASSUME TypeInv, NEW a \in Writers, NEW new \in Rows, Judge(a, new), pc'[a] # "idle"
    PROVE  /\ pc'[a] = "commit" /\ row' = row /\ type' = type /\ missed'[a] = missed[a]
           /\ copy'[a] = Rest(a, new)
           /\ \A f \in DOMAIN sets'[a] : sets'[a][f] = new[f] /\ new[f] # copy[a][f]
           /\ \A f \in Columns \ DOMAIN sets'[a] : new[f] = copy[a][f]
  <1>1. new # copy[a]
    BY DEF Judge, Leave, Close, Goto, TypeInv, TypeOK
  <1>2. sets'[a] = Changed(copy[a], new, {}) /\ copy[a] \in Rows /\ {} \in SUBSET Columns
    BY <1>1 DEF Judge, TypeInv, TypeOK
  <1>3. /\ \A f \in DOMAIN sets'[a] : sets'[a][f] = new[f] /\ new[f] # copy[a][f]
        /\ \A f \in Columns \ DOMAIN sets'[a] : new[f] = copy[a][f]
    BY <1>2, ChangedFields
  <1>4. QED  BY <1>1, <1>3 DEF Judge, Goto, rowVars, TypeInv, TypeOK

LEMMA CommitKnows ==
    ASSUME TypeInv, NEW a \in Writers, NEW l, Commit(a, l)
    PROVE  /\ pc[a] = "commit" /\ pc'[a] = l /\ type' = type
           /\ row'.status = IF Writes(a, "status") THEN sets[a].status ELSE row.status
           /\ row'.quotas = IF Writes(a, "quotas") THEN sets[a].quotas ELSE row.quotas
           /\ l # "idle" => missed'[a] = missed[a]
  BY DEF Commit, Write, Goto, Writes, Columns, TypeInv, TypeOK

LEMMA HandlerLearns ==
    ASSUME TypeInv, Facts, HandlerStep
    PROVE  Alone("handler") /\ HandlerFacts'
  <1>0. "handler" \in Writers /\ row \in Rows /\ kind \in Kinds
    BY DEF Writers, TypeInv, TypeOK
  <1>1. ASSUME NEW k \in Kinds, Fail(k)  PROVE Alone("handler") /\ HandlerFacts'
    BY <1>0, <1>1 DEF Fail, Goto, rowVars, HandlerFacts, Writes, Alone, Untouched, TypeInv, TypeOK
  <1>2. CASE Handle
    <2>1. PICK g \in Groups :
            IF Keeps(row) THEN Leave("handler")
            ELSE Decide("handler", Blamed(row, g), IF AG /\ kind = "QUOTA" THEN {"quotas"} ELSE {})
      BY <1>2 DEF Handle
    <2>2. CASE Keeps(row)
      <3>1. pc'["handler"] = "idle"
        BY <1>0, <2>1, <2>2 DEF Leave, Close, Goto, TypeInv, TypeOK
      <3>2. QED  BY <1>0, <2>1, <2>2, <3>1, LeavesAlone, AtRest
    <2>3. CASE ~Keeps(row)
      <3> DEFINE new == Blamed(row, g)
                 flagged == IF AG /\ kind = "QUOTA" THEN {"quotas"} ELSE {}
      <3>1. new \in Rows /\ flagged \in SUBSET Columns /\ Decide("handler", new, flagged)
        BY <1>0, <2>1, <2>3, VerdictTypes DEF Columns
      <3>2. row.status \in Terminal => new.status \in Terminal
        BY <1>0, <2>3 DEF Keeps, Blamed, Marked, Terminal, Rows
      <3>3. /\ AG /\ new.status = "exhausted" /\ new.status # row.status =>
                  "quotas" \in flagged /\ Spent(new.quotas)
            /\ \A h \in Groups : row.quotas[h] = "zero" => new.quotas[h] = "zero"
        BY <1>0 DEF Blamed, Marked, Rows, Spent
      <3>4. HandlerFacts'
        BY <1>0, <3>1, <3>2, <3>3, DecideKnows DEF HandlerFacts, Writes, Spent, AG
      <3>5. QED  BY <1>0, <3>1, <3>4, DecidesAlone
    <2>4. QED  BY <2>2, <2>3
  <1>3. CASE HandlerCommit
    BY <1>0, <1>3, CommitKnows, CommitsAlone, AtRest DEF HandlerCommit
  <1>4. CASE LockState("handler", "judge")
    BY <1>0, <1>4 DEF LockState, Goto, rowVars, HandlerFacts, Writes, Alone, Untouched, TypeInv, TypeOK
  <1>5. CASE GiveUp("handler")
    <2>1. pc'["handler"] = "idle"
      BY <1>0, <1>5 DEF GiveUp, Leave, Close, Goto, TypeInv, TypeOK
    <2>2. QED  BY <1>0, <1>5, <2>1, LeavesAlone, AtRest DEF GiveUp
  <1>6. QED  BY <1>1, <1>2, <1>3, <1>4, <1>5 DEF HandlerStep

LEMMA ScanLearns ==
    ASSUME TypeInv, Facts, ScanStep
    PROVE  Alone("scan") /\ ScanFacts'
  <1>0. "scan" \in Writers /\ row \in Rows /\ copy["scan"] \in Rows /\ {} \in SUBSET Columns /\ ScanFacts
    BY DEF Writers, TypeInv, TypeOK, Facts
  <1>1. CASE ScanLoad
    <2>1. CASE row.status = "cooldown"
      <3>1. Read("scan", row)
        BY <1>1, <2>1 DEF ScanLoad
      <3>2. ScanFacts'
        BY <1>0, <2>1, <3>1, ReadKnows DEF ScanFacts, Writes
      <3>3. QED  BY <1>0, <3>1, <3>2, ReadsAlone
    <2>2. CASE row.status # "cooldown"
      <3> DEFINE new == Repaired(row)
      <3>1. new \in Rows /\ Decide("scan", new, {})
        BY <1>0, <1>1, <2>2, VerdictTypes DEF ScanLoad
      <3>2. /\ new.quotas = row.quotas
            /\ new.status # row.status => new.status = "active" /\ row.status \notin Terminal
        BY <1>0 DEF Repaired, NewWindow, Rows, Terminal
      <3>3. ~AG => Rest("scan", new).status = new.status
        BY <3>1 DEF Rest, Nothing, Rows
      <3>4. ScanFacts'
        BY <1>0, <3>1, <3>2, <3>3, DecideKnows DEF ScanFacts, Writes, Unmissed, Booking, AG, Columns, Terminal
      <3>5. QED  BY <1>0, <3>1, <3>4, DecidesAlone
    <2>3. QED  BY <2>1, <2>2
  <1>2. CASE ScanJudge
    <2> DEFINE old == copy["scan"]
               new == IF cool THEN old ELSE Repaired(Revived(old))
    <2>1. new \in Rows /\ Judge("scan", new) /\ pc["scan"] = "judge"
      BY <1>0, <1>2, VerdictTypes DEF ScanJudge, Judge
    <2>2. Alone("scan")
      BY <1>0, <2>1, JudgesAlone
    <2>3. CASE pc'["scan"] = "idle"
      BY <1>0, <2>2, <2>3, AtRest
    <2>4. CASE pc'["scan"] # "idle"
      <3>1. old.status = "cooldown"
        BY <1>0, <2>1 DEF ScanFacts
      <3>2. new.quotas = old.quotas
        BY <1>0 DEF Repaired, Revived, NewWindow, Rows
      <3>3. new.status # old.status =>
               /\ new.status \in {"active", "exhausted"}
               /\ AG /\ new.status = "exhausted" => Spent(old.quotas)
        BY <1>0, <3>1 DEF Repaired, Revived, NewWindow, Rows
      <3>4. ~AG => Rest("scan", new).status = new.status
        BY <2>1 DEF Rest, Nothing, Rows
      <3>5. ScanFacts'
        BY <1>0, <2>1, <2>4, <3>1, <3>2, <3>3, <3>4, JudgeKnows
        DEF ScanFacts, Writes, Unmissed, Booking, AG, Columns, Terminal, Spent
      <3>6. QED  BY <2>2, <3>5
    <2>5. QED  BY <2>3, <2>4
  <1>3. CASE ScanCommit
    <2>1. PICK l \in {"pick", "idle"} : Commit("scan", l) /\ (l = "pick" => Booking)
      BY <1>3 DEF ScanCommit
    <2>2. Alone("scan")
      BY <1>0, <2>1, CommitsAlone
    <2>3. CASE l = "idle"
      BY <1>0, <2>1, <2>2, <2>3, CommitKnows, AtRest
    <2>4. CASE l = "pick"
      <3>1. ScanFacts'
        BY <1>0, <2>1, <2>4, CommitKnows DEF ScanFacts, Writes, Unmissed, Booking, AG, Terminal
      <3>2. QED  BY <2>2, <3>1
    <2>5. QED  BY <2>3, <2>4
  <1>4. CASE ExhaustBound
    <2>1. Alone("scan")
      BY <1>0, <1>4 DEF ExhaustBound, Goto, rowVars, Alone, Untouched, TypeInv, TypeOK
    <2>2. /\ pc["scan"] = "pick" /\ pc'["scan"] = "commit" /\ copy'["scan"].status = "exhausted"
          /\ sets'["scan"] = [status |-> "exhausted"] /\ UNCHANGED <<type, row, missed>>
      BY <1>0, <1>4 DEF ExhaustBound, Goto, rowVars, TypeInv, TypeOK, Rows
    <2>3. ScanFacts'
      BY <1>0, <2>2 DEF ScanFacts, Writes, Unmissed, Booking, AG
    <2>4. QED  BY <2>1, <2>3
  <1>5. QED  BY <1>1, <1>2, <1>3, <1>4 DEF ScanStep

LEMMA WorkerLearns ==
    ASSUME TypeInv, Facts, WorkerStep
    PROVE  \/ Alone("reset") /\ ResetFacts'
           \/ Alone("health") /\ HealthFacts'
           \/ Alone("refresh") /\ RefreshFacts'
  <1>0. /\ {"reset", "health", "refresh"} \subseteq Writers
        /\ row \in Rows /\ copy["reset"] \in Rows /\ {} \in SUBSET Columns
        /\ ResetFacts /\ HealthFacts /\ RefreshFacts
    BY DEF Writers, TypeInv, TypeOK, Facts
  <1>1. CASE ResetLoad
    <2>1. CASE row.status = "cooldown"
      <3>1. Read("reset", [row EXCEPT !.quotas = NoQuotas])
        BY <1>1, <2>1 DEF ResetLoad
      <3>2. [row EXCEPT !.quotas = NoQuotas].status = "cooldown"
        BY <1>0, <2>1 DEF Rows
      <3>3. ResetFacts'
        BY <1>0, <2>1, <3>1, <3>2, ReadKnows DEF ResetFacts, Writes
      <3>4. QED  BY <1>0, <3>1, <3>3, ReadsAlone
    <2>2. CASE row.status # "cooldown"
      <3> DEFINE new == Reset(row)
      <3>1. new \in Rows /\ Decide("reset", new, {}) /\ ~AG
        BY <1>0, <1>1, <2>2, VerdictTypes DEF ResetLoad, Due
      <3>2. new.quotas = row.quotas /\ (new.status # row.status => new.status = "active")
        BY <1>0, <2>2 DEF Reset, Rolled, NewWindow, Rows
      <3>3. ResetFacts'
        BY <1>0, <3>1, <3>2, DecideKnows DEF ResetFacts, Writes, AG, Columns
      <3>4. QED  BY <1>0, <3>1, <3>3, DecidesAlone
    <2>3. QED  BY <2>1, <2>2
  <1>2. CASE ResetJudge
    <2> DEFINE old == copy["reset"]
               new == IF cool THEN old ELSE Reset(old)
    <2>1. new \in Rows /\ Judge("reset", new) /\ pc["reset"] = "judge"
      BY <1>0, <1>2, VerdictTypes DEF ResetJudge, Judge
    <2>2. Alone("reset")
      BY <1>0, <2>1, JudgesAlone
    <2>3. CASE pc'["reset"] = "idle"
      BY <2>2, <2>3, AtRest
    <2>4. CASE pc'["reset"] # "idle"
      <3>1. new.quotas = old.quotas /\ (new.status # old.status => new.status = "active")
        BY <1>0 DEF Reset, Rolled, NewWindow, Rows
      <3>2. ResetFacts'
        BY <1>0, <2>1, <2>4, <3>1, JudgeKnows
        DEF ResetFacts, Writes, Unmissed, AG, Columns, Terminal
      <3>3. QED  BY <2>2, <3>2
    <2>5. QED  BY <2>3, <2>4
  <1>3. CASE ResetCommit
    BY <1>0, <1>3, CommitKnows, CommitsAlone, AtRest DEF ResetCommit
  <1>4. CASE HealthLoad
    <2>1. PICK healthy \in BOOLEAN :
            Decide("health", [row EXCEPT !.status =
                                 IF ~healthy THEN "degraded"
                                 ELSE IF @ = "degraded" THEN "active" ELSE @], {})
      BY <1>4 DEF HealthLoad
    <2> DEFINE new == [row EXCEPT !.status = IF ~healthy THEN "degraded"
                                 ELSE IF @ = "degraded" THEN "active" ELSE @]
    <2>2. new \in Rows /\ new.quotas = row.quotas /\ ~AG /\ Decide("health", new, {})
      BY <1>0, <1>4, <2>1 DEF HealthLoad, Rows, Statuses
    <2> HIDE DEF new
    <2>3. HealthFacts'
      BY <1>0, <2>2, DecideKnows DEF HealthFacts, Writes, AG
    <2>4. QED  BY <1>0, <2>1, <2>3, DecidesAlone
  <1>5. CASE HealthCommit
    BY <1>0, <1>5, CommitKnows, CommitsAlone, AtRest DEF HealthCommit
  <1>6. CASE RefreshLoad
    <2>1. PICK verdict \in {"reauth_required", "cooldown"} :
            Decide("refresh", [row EXCEPT !.status = verdict], {})
      BY <1>6 DEF RefreshLoad
    <2> DEFINE new == [row EXCEPT !.status = verdict]
    <2>2. /\ new \in Rows /\ new.quotas = row.quotas /\ new.status = verdict
          /\ row.status \notin Terminal /\ Decide("refresh", new, {})
      BY <1>0, <1>6, <2>1 DEF RefreshLoad, Rows, Statuses
    <2> HIDE DEF new
    <2>3. RefreshFacts'
      BY <1>0, <2>2, DecideKnows DEF RefreshFacts, Writes
    <2>4. QED  BY <1>0, <2>1, <2>3, DecidesAlone
  <1>7. CASE RefreshCommit
    <2>1. PICK l \in {"idle", "key"} : Commit("refresh", l)
      BY <1>7 DEF RefreshCommit
    <2>2. QED  BY <1>0, <2>1, CommitKnows, CommitsAlone, AtRest
  <1>8. CASE RefreshKey
    <2>1. pc'["refresh"] = "idle" /\ Leave("refresh")
      BY <1>0, <1>8 DEF RefreshKey, Leave, Close, Goto, TypeInv, TypeOK
    <2>2. QED  BY <1>0, <2>1, LeavesAlone, AtRest
  <1>9. QED  BY <1>1, <1>2, <1>3, <1>4, <1>5, <1>6, <1>7, <1>8 DEF WorkerStep

LEMMA ProbeLearns ==
    ASSUME TypeInv, Facts, ProbeStep
    PROVE  Alone("probe") /\ ProbeFacts'
  <1>0. /\ "probe" \in Writers /\ copy["probe"] \in Rows /\ ProbeFacts /\ NoQuotas \in [Groups -> {"unknown", "zero", "some"}]
        /\ {"status", "quotas"} \in SUBSET Columns
    BY DEF Writers, TypeInv, TypeOK, Facts, NoQuotas, Columns
  <1>1. CASE ProbeStart
    <2>1. Read("probe", row)
      BY <1>1 DEF ProbeStart
    <2>2. QED  BY <1>0, <2>1, ReadKnows, ReadsAlone DEF ProbeFacts
  <1>2. ASSUME NEW values, Write("probe", values, "idle"), Close("probe"), type' = type
        PROVE  Alone("probe") /\ ProbeFacts'
    <2>1. pc'["probe"] = "idle"
      BY <1>0, <1>2 DEF Close, Goto, TypeInv, TypeOK
    <2>2. QED  BY <1>0, <1>2, <2>1, ClosesAlone, AtRest
  <1>3. CASE ProbeDenied
    BY <1>2, <1>3 DEF ProbeDenied, ProbeFailed
  <1>4. CASE ProbeBroken
    BY <1>2, <1>4 DEF ProbeBroken, ProbeFailed
  <1>5. CASE ProbeJudge
    <2> DEFINE old == copy["probe"]
    <2>1. PICK ok \in BOOLEAN, found \in Answers :
            sets' = [sets EXCEPT !["probe"] = Changed(old, Probed(old, ok, found), {"status", "quotas"})]
      BY <1>5 DEF ProbeJudge
    <2> DEFINE new == Probed(old, ok, found)
    <2>2. Alone("probe")
      BY <1>0, <1>5 DEF ProbeJudge, Goto, rowVars, Alone, Untouched, TypeInv, TypeOK
    <2>3. /\ copy'["probe"] = [Nothing EXCEPT !.status = old.status]
          /\ sets'["probe"] = Changed(old, new, {"status", "quotas"})
      BY <1>0, <1>5, <2>1 DEF ProbeJudge, TypeInv, TypeOK
    <2>4. copy'["probe"].status = old.status
      BY <2>3, RestType DEF Rows
    <2>5. new \in Rows
      BY <1>0, ProbedTypes
    <2>6. /\ {"status", "quotas"} \subseteq DOMAIN sets'["probe"]
          /\ sets'["probe"].status = new.status /\ sets'["probe"].quotas = new.quotas
      BY <1>0, <2>3, <2>5, ChangedFields
    <2>7. /\ old.status \in Terminal => new.status \in Terminal
          /\ new.status = "exhausted" => Spent(new.quotas)
      BY <1>0, AnswersAssumption DEF Probed, ByGroups, Terminal, Rows
    <2>8. ProbeFacts'
      BY <2>4, <2>6, <2>7 DEF ProbeFacts, Spent
    <2>9. QED  BY <2>2, <2>8
  <1>6. CASE ProbeWrite
    BY <1>2, <1>6 DEF ProbeWrite
  <1>7. CASE LockState("probe", "write")
    <2>1. pc["probe"] = "lock" /\ UNCHANGED <<copy, sets>> /\ Alone("probe")
      BY <1>0, <1>7 DEF LockState, Goto, rowVars, Alone, Untouched, TypeInv, TypeOK
    <2>2. QED  BY <1>0, <2>1 DEF ProbeFacts, Spent
  <1>8. CASE GiveUp("probe")
    <2>1. pc'["probe"] = "idle" /\ Leave("probe")
      BY <1>0, <1>8 DEF GiveUp, Leave, Close, Goto, TypeInv, TypeOK
    <2>2. QED  BY <1>0, <2>1, LeavesAlone, AtRest
  <1>9. QED  BY <1>1, <1>3, <1>4, <1>5, <1>6, <1>7, <1>8 DEF ProbeStep

LEMMA AdminLearns ==
    ASSUME TypeInv, Facts, AdminLoad \/ Reconnect \/ AdminCommit
    PROVE  Alone("admin") /\ AdminFacts'
  <1>0. "admin" \in Writers /\ row \in Rows
    BY DEF Writers, TypeInv, TypeOK
  <1>1. ASSUME NEW new \in Rows, NEW flagged \in SUBSET {"quotas"}, Decide("admin", new, flagged),
               new.status \in {"active", "disabled", row.status}
        PROVE  Alone("admin") /\ AdminFacts'
    <2>1. flagged \in SUBSET Columns
      BY DEF Columns
    <2>2. AdminFacts'
      BY <1>0, <1>1, <2>1, DecideKnows DEF AdminFacts, Writes
    <2>3. QED  BY <1>0, <1>1, <2>2, DecidesAlone
  <1>2. /\ [row EXCEPT !.status = "disabled"] \in Rows
        /\ [row EXCEPT !.status = "disabled"].status = "disabled"
        /\ [row EXCEPT !.status = "active", !.reset = "none", !.quotas = NoQuotas] \in Rows
        /\ [row EXCEPT !.status = "active", !.reset = "none", !.quotas = NoQuotas].status = "active"
        /\ [row EXCEPT !.status = "active"] \in Rows
        /\ [row EXCEPT !.status = "active"].status = "active"
    BY <1>0 DEF Rows, Statuses, NoQuotas
  <1>3. ASSUME NEW w \in BOOLEAN
        PROVE  LET new == [row EXCEPT !.window = w, !.reset = IF w THEN "future" ELSE "none"]
               IN  new \in Rows /\ new.status = row.status
    BY <1>0 DEF Rows
  <1>4. CASE AdminLoad
    <2>1. PICK new \in Rows, flagged \in SUBSET {"quotas"} :
             Decide("admin", new, flagged) /\ new.status \in {"active", "disabled", row.status}
      <3>1. {} \in SUBSET {"quotas"} /\ {"quotas"} \in SUBSET {"quotas"}
        OBVIOUS
      <3>2. CASE Decide("admin", [row EXCEPT !.status = "disabled"], {})
        BY <1>2, <3>1, <3>2
      <3>3. CASE row.status = "active" /\ Decide("admin", row, {})
        BY <1>0, <3>1, <3>3
      <3>4. CASE Decide("admin", [row EXCEPT !.status = "active", !.reset = "none",
                                             !.quotas = NoQuotas], {"quotas"})
        BY <1>2, <3>1, <3>4
      <3>5. CASE \E w \in BOOLEAN :
             Decide("admin", [row EXCEPT !.window = w, !.reset = IF w THEN "future" ELSE "none"], {})
        <4>1. PICK w \in BOOLEAN :
             Decide("admin", [row EXCEPT !.window = w, !.reset = IF w THEN "future" ELSE "none"], {})
          BY <3>5
        <4>2. QED  BY <1>3, <3>1, <4>1
      <3>6. QED  BY <1>4, <3>2, <3>3, <3>4, <3>5 DEF AdminLoad
    <2>2. QED  BY <1>1, <2>1
  <1>5. CASE Reconnect
    <2>1. {} \in SUBSET {"quotas"} /\ Decide("admin", [row EXCEPT !.status = "active"], {})
      BY <1>5 DEF Reconnect
    <2>2. QED  BY <1>1, <1>2, <2>1
  <1>6. CASE AdminCommit
    BY <1>0, <1>6, CommitKnows, CommitsAlone, AtRest DEF AdminCommit
  <1>7. QED  BY <1>4, <1>5, <1>6

LEMMA TimeLearns ==
    ASSUME TypeInv, WindowEnds \/ CooldownExpires \/ LockExpires \/ UNCHANGED vars
    PROVE  \A b \in Writers : Untouched(b)
  <1>1. row'.status = row.status /\ row'.quotas = row.quotas /\ UNCHANGED <<type, pc, copy, sets, missed>>
    BY DEF WindowEnds, CooldownExpires, LockExpires, vars, rowVars, TypeInv, TypeOK, Rows
  <1>2. \A b \in Writers : Watched(b) \subseteq {"status", "quotas"}
    BY DEF Watched
  <1>3. QED  BY <1>1, <1>2 DEF Untouched

Inv == TypeInv /\ Facts

THEOREM LifecycleInvariant == Spec => []Inv
  <1>1. Init => Inv
    <2>1. Init => \A a \in Writers : pc[a] = "idle"
      BY DEF Init
    <2>2. (\A a \in Writers : pc[a] = "idle") => Facts
      BY DEF Writers, Facts, HandlerFacts, ScanFacts, ResetFacts, HealthFacts, RefreshFacts,
             ProbeFacts, AdminFacts, Writes
    <2>3. QED  BY <2>1, <2>2, InitTypes DEF Inv
  <1>2. Inv /\ [Next]_vars => Inv'
    <2> SUFFICES ASSUME Inv, [Next]_vars  PROVE TypeInv' /\ Facts'
      BY DEF Inv
    <2>1. TypeInv /\ Facts /\ ProbeFacts
      BY DEF Inv, Facts
    <2>2. TypeInv'
      BY <2>1, HandlerTypes, ScanTypes, WorkerTypes, ProbeTypes, AdminTypes, TimeTypes DEF Next
    <2>3. Facts'
      <3>1. CASE HandlerStep
        BY <2>1, <3>1, HandlerLearns, FactsStay DEF Alone, Writers, Facts
      <3>2. CASE ScanStep
        BY <2>1, <3>2, ScanLearns, FactsStay DEF Alone, Writers, Facts
      <3>3. CASE WorkerStep
        BY <2>1, <3>3, WorkerLearns, FactsStay DEF Alone, Writers, Facts
      <3>4. CASE ProbeStep
        BY <2>1, <3>4, ProbeLearns, FactsStay DEF Alone, Writers, Facts
      <3>5. CASE AdminLoad \/ Reconnect \/ AdminCommit
        BY <2>1, <3>5, AdminLearns, FactsStay DEF Alone, Writers, Facts
      <3>6. CASE WindowEnds \/ CooldownExpires \/ LockExpires \/ UNCHANGED vars
        BY <2>1, <3>6, TimeLearns, FactsStay DEF Writers, Facts
      <3>7. QED  BY <3>1, <3>2, <3>3, <3>4, <3>5, <3>6 DEF Next
    <2>4. QED  BY <2>2, <2>3
  <1>3. QED  BY <1>1, <1>2, PTL DEF Spec

(* The types, for every number of sessions: see TypeOK. *)
THEOREM LifecycleTypeCorrect == Spec => []TypeOK
  <1>1. Inv => TypeOK
    BY DEF Inv, TypeInv
  <1>2. QED  BY <1>1, LifecycleInvariant, PTL

------------------------------------------------------------------------------
(* What a step may do to the row *)

KeepsTerminal ==
    row.status \in Terminal /\ row'.status \notin Terminal =>
       \E a \in Writers : Commits(a) /\
          (a = "admin" \/ "status" \in missed[a] \/ (~AG /\ a \in {"reset", "health"}))

ExhaustsSpent ==
    AG /\ row'.status = "exhausted" /\ row.status # "exhausted" =>
       \/ Spent(row'.quotas)
       \/ \E a \in Writers : Commits(a) /\ "quotas" \in missed[a]

KeepsSpent ==
    \A g \in Groups : row.quotas[g] = "zero" /\ row'.quotas[g] # "zero" =>
       \E a \in Writers : Commits(a) /\ (a \in {"probe", "admin"} \/ "quotas" \in missed[a])

Careful == KeepsTerminal /\ ExhaustsSpent /\ KeepsSpent

LEMMA SameVerdict ==
    ASSUME row'.status = row.status, row'.quotas = row.quotas
    PROVE  Careful
  BY DEF Careful, KeepsTerminal, ExhaustsSpent, KeepsSpent

(* A commit, by what its writer knows. *)
LEMMA CarefulCommit ==
    ASSUME TypeInv, Facts, NEW a \in Writers \ {"probe"}, NEW l \in {"idle", "pick", "key"}, Commit(a, l)
    PROVE  Careful
  <1>1. /\ Commits(a)
        /\ row'.status = IF Writes(a, "status") THEN sets[a].status ELSE row.status
        /\ row'.quotas = IF Writes(a, "quotas") THEN sets[a].quotas ELSE row.quotas
        /\ pc[a] = "commit" /\ a \in Writers
    BY CommitKnows DEF Commits
  <1>2. CASE a = "handler"
    BY <1>1, <1>2 DEF Facts, HandlerFacts, Unmissed, Careful, KeepsTerminal, ExhaustsSpent, KeepsSpent, Spent
  <1>3. CASE a = "scan"
    BY <1>1, <1>3 DEF Facts, ScanFacts, Unmissed, Careful, KeepsTerminal, ExhaustsSpent, KeepsSpent
  <1>4. CASE a = "reset"
    BY <1>1, <1>4 DEF Facts, ResetFacts, Unmissed, Careful, KeepsTerminal, ExhaustsSpent, KeepsSpent
  <1>5. CASE a = "health"
    BY <1>1, <1>5 DEF Facts, HealthFacts, Unmissed, Careful, KeepsTerminal, ExhaustsSpent, KeepsSpent
  <1>6. CASE a = "refresh"
    BY <1>1, <1>6 DEF Facts, RefreshFacts, Unmissed, Careful, KeepsTerminal, ExhaustsSpent, KeepsSpent
  <1>7. CASE a = "admin"
    BY <1>1, <1>7 DEF Facts, AdminFacts, Careful, KeepsTerminal, ExhaustsSpent, KeepsSpent
  <1>8. QED  BY <1>2, <1>3, <1>4, <1>5, <1>6, <1>7 DEF Writers

LEMMA CarefulProbe ==
    ASSUME TypeInv, Facts, ProbeStep
    PROVE  Careful
  <1>0. "probe" \in Writers /\ row \in Rows /\ ProbeFacts
    BY DEF Writers, TypeInv, TypeOK, Facts
  <1>1. CASE ProbeStart \/ ProbeJudge \/ LockState("probe", "write") \/ GiveUp("probe")
    BY <1>1, SameVerdict DEF ProbeStart, Read, ProbeJudge, LockState, GiveUp, Leave, rowVars
  <1>2. CASE ProbeDenied
    <2>1. row' = [row EXCEPT !.status = "reauth_required"]
      BY <1>2 DEF ProbeDenied, ProbeFailed, Write
    <2>2. QED  BY <1>0, <2>1 DEF Rows, Careful, KeepsTerminal, ExhaustsSpent, KeepsSpent, Terminal
  <1>3. CASE ProbeBroken
    <2>1. row' = [row EXCEPT !.status = IF row.status \in Terminal \cup {"exhausted"}
                                        THEN row.status ELSE "degraded"]
      BY <1>3 DEF ProbeBroken, ProbeFailed, Write
    <2>2. QED  BY <1>0, <2>1 DEF Rows, Careful, KeepsTerminal, ExhaustsSpent, KeepsSpent
  <1>4. CASE ProbeWrite
    <2>1. /\ pc["probe"] = "write" /\ pc'["probe"] = "idle"
          /\ row' = IF row.status = copy["probe"].status THEN ProbeValues ELSE row
      BY <1>0, <1>4 DEF ProbeWrite, Write, Close, Goto, TypeInv, TypeOK
    <2>2. Commits("probe")
      BY <2>1 DEF Commits
    <2>3. CASE row.status # copy["probe"].status
      BY <2>1, <2>3, SameVerdict
    <2>4. CASE row.status = copy["probe"].status
      <3>1. row'.status = sets["probe"].status /\ row'.quotas = sets["probe"].quotas
        BY <1>0, <2>1, <2>4 DEF ProbeValues, Rows
      <3>2. KeepsTerminal /\ ExhaustsSpent
        BY <1>0, <2>1, <2>4, <3>1 DEF ProbeFacts, KeepsTerminal, ExhaustsSpent, Spent
      <3>3. KeepsSpent
        BY <1>0, <2>2 DEF KeepsSpent
      <3>4. QED  BY <3>2, <3>3 DEF Careful
    <2>5. QED  BY <2>3, <2>4
  <1>5. QED  BY <1>1, <1>2, <1>3, <1>4 DEF ProbeStep

LEMMA CarefulStep ==
    ASSUME TypeInv, Facts, [Next]_vars
    PROVE  Careful
  <1>1. CASE HandlerStep
    <2>1. CASE HandlerCommit
      BY <2>1, CarefulCommit DEF HandlerCommit, Writers
    <2>2. CASE ~HandlerCommit
      BY <1>1, <2>2, SameVerdict
      DEF HandlerStep, Fail, Handle, Leave, Decide, LockState, GiveUp, rowVars
    <2>3. QED  BY <2>1, <2>2
  <1>2. CASE ScanStep
    <2>1. CASE ScanCommit
      BY <2>1, CarefulCommit DEF ScanCommit, Writers
    <2>2. CASE ~ScanCommit
      BY <1>2, <2>2, SameVerdict
      DEF ScanStep, ScanLoad, ScanJudge, ExhaustBound, Judge, Leave, Decide, Read, rowVars
    <2>3. QED  BY <2>1, <2>2
  <1>3. CASE WorkerStep
    <2>1. CASE ResetCommit
      BY <2>1, CarefulCommit DEF ResetCommit, Writers
    <2>2. CASE HealthCommit
      BY <2>2, CarefulCommit DEF HealthCommit, Writers
    <2>3. CASE RefreshCommit
      BY <2>3, CarefulCommit DEF RefreshCommit, Writers
    <2>4. CASE ResetLoad \/ ResetJudge \/ HealthLoad \/ RefreshLoad \/ RefreshKey
      BY <2>4, SameVerdict
      DEF ResetLoad, ResetJudge, HealthLoad, RefreshLoad, RefreshKey, Judge, Leave, Decide, Read, rowVars
    <2>5. QED  BY <1>3, <2>1, <2>2, <2>3, <2>4 DEF WorkerStep
  <1>4. CASE ProbeStep
    BY <1>4, CarefulProbe
  <1>5. CASE AdminCommit
    BY <1>5, CarefulCommit DEF AdminCommit, Writers
  <1>6. CASE AdminLoad \/ Reconnect
    BY <1>6, SameVerdict DEF AdminLoad, Reconnect, Decide
  <1>7. CASE WindowEnds \/ CooldownExpires \/ LockExpires \/ UNCHANGED vars
    BY <1>7, SameVerdict
    DEF WindowEnds, CooldownExpires, LockExpires, vars, rowVars, TypeInv, TypeOK, Rows
  <1>8. QED  BY <1>1, <1>2, <1>3, <1>4, <1>5, <1>6, <1>7 DEF Next

(* Once an account is disabled or waits for a new login, whoever has seen  *)
(* it in that state leaves it there: see TerminalSticks.                   *)
THEOREM LifecycleTerminalSticks == Spec => TerminalSticks
  <1>1. Inv /\ [Next]_vars => [KeepsTerminal]_vars
    BY CarefulStep DEF Inv, Careful
  <1>2. QED  BY <1>1, LifecycleInvariant, PTL DEF Spec, TerminalSticks, KeepsTerminal

(* No Antigravity account is declared exhausted on quotas known to be      *)
(* left, unless they changed since they were read: see ExhaustedIsSpent.   *)
THEOREM LifecycleExhaustedIsSpent == Spec => ExhaustedIsSpent
  <1>1. Inv /\ [Next]_vars => [ExhaustsSpent]_vars
    BY CarefulStep DEF Inv, Careful
  <1>2. QED  BY <1>1, LifecycleInvariant, PTL DEF Spec, ExhaustedIsSpent, ExhaustsSpent

(* A spent quota group is forgotten by the probe, by the admin, or by a    *)
(* writer that missed it, and by nobody else: see SpentSticks.             *)
THEOREM LifecycleSpentSticks == Spec => SpentSticks
  <1>1. Inv /\ [Next]_vars => [KeepsSpent]_vars
    BY CarefulStep DEF Inv, Careful
  <1>2. QED  BY <1>1, LifecycleInvariant, PTL DEF Spec, SpentSticks, KeepsSpent
==============================================================================
